---- MODULE Spec2Model ----
(***************************************************************************)
(* State-machine model of the distributed task runner: the task store     *)
(* (TaskQueue over the tasks table), the in-process queue, the Redis      *)
(* work queue with processing markers, the retry handler (circuit         *)
(* breakers, backoff), the dead letter queue, the two executors and the   *)
(* two worker loops.                                                       *)
(***************************************************************************)
EXTENDS Integers, Sequences, FiniteSets, TLC

(***************************************************************************)
(* Bounds of the model.                                                    *)
(***************************************************************************)
MaxTasks == 2
MaxTicks == 1

\* worker processes popping from the same Redis list
MaxWorkers == 3

\* concurrent requests POST /dead-letters/{task_id}/retry
MaxCalls == 2
MaxFailures == 6
MaxRegistryTicks == 2
MaxRegistryFailures == 10

(***************************************************************************)
(* Program constants.                                                      *)
(***************************************************************************)
failure_threshold == 5
recovery_timeout == 60
retry_delay == 5
max_retries == 3
ProcessingTTL == 300
ExponentialCap == 300
LinearCap == 120
DefaultOlderThanHours == 24

\* Python None for timestamps (times are naturals).
NoTime == 0 - 1
\* Python None for text columns.
NoText == "None"

\* task kinds accepted by the executors
Kinds == {"text_processing", "ai_summarization"}

\* task kinds submitted in the pipeline runs
PipelineKinds == {"text_processing"}

\* the worker script that is running: run_worker.py or run_enhanced_worker.py
Deployments == {"basic", "enhanced"}

\* values of settings.max_retries (environment configuration, default 3)
MaxRetriesSettings == {0, max_retries}

\* amount by which the wall clock advances between two steps of the pipeline:
\* past every retry delay, recovery_timeout and the TTL of a processing key
TickSteps == {ProcessingTTL}

\* exceptions a handler raises: class name and message
HandlerErrors ==
    { [type |-> "TimeoutError", msg |-> "Simulated timeout during text processing"],
      [type |-> "Exception", msg |-> "RateLimitError: API rate limit exceeded"] }

\* 'str' object has no attribute 'get': payload.get on a payload that decodes to a string
AttributeError == [type |-> "AttributeError", msg |-> "'str' object has no attribute 'get'"]

VARIABLES
    deployment,        \* which worker loop runs
    settings,          \* app.core.config.settings (max_retries)
    now,               \* wall clock, seconds
    nticks,            \* number of clock advances so far
    tasks,             \* the tasks table: sequence of rows, id = index
    tq_queue,          \* TaskQueue._queue (asyncio.Queue of task ids)
    redis_list,        \* Redis list "task_queue": head = left end
    processing,        \* Redis keys "processing:<id>" -> expiry time
    circuit_breakers,  \* RetryHandler.circuit_breakers
    dead_tasks,        \* DeadLetterQueue.dead_tasks
    execution_stats,   \* EnhancedTaskExecutor.execution_stats
    timers,            \* pending _retry_after_delay coroutines
    w_pc,              \* position of the worker coroutine
    w_data,            \* task_data held by _process_task
    w_task,            \* Task object held by the executor
    api,               \* retry_dead_letter call in progress in the API process
    hist               \* observation of the run (history variables)

vars == << deployment, settings, now, nticks, tasks, tq_queue, redis_list,
           processing, circuit_breakers, dead_tasks, execution_stats, timers,
           w_pc, w_data, w_task, api, hist >>

(***************************************************************************)
(* Dictionaries: functions over a finite domain of keys.                   *)
(***************************************************************************)
EmptyDict == [k \in {} |-> 0]

Put(f, k, v) == [x \in (DOMAIN f) \cup {k} |-> IF x = k THEN v ELSE f[x]]

Del(f, k) == [x \in (DOMAIN f) \ {k} |-> f[x]]

TaskIds == DOMAIN tasks

NoTask == [id |-> 0]

NoData == [id |-> 0]

NoRequest == [step |-> "idle"]

(***************************************************************************)
(* Payload encoding.  A payload value is represented by its JSON nesting   *)
(* depth: 0 is a dict, 1 a JSON string that decodes to a dict, 2 a JSON    *)
(* string that decodes to such a string.                                   *)
(***************************************************************************)
JsonDumps(p) == p + 1

JsonLoads(p) == p - 1

DictPayload == 0

\* payload.get(...) works only when json.loads(task.payload) is a dict
PayloadIsDict(task) == JsonLoads(task.payload) = DictPayload

(***************************************************************************)
(* Task store: TaskQueue over the tasks table.                             *)
(***************************************************************************)
\* create_task that leaves max_retries to the default of the column
NewTaskColumnDefault(task_type, payload) ==
    [ task_type |-> task_type,
      payload |-> JsonDumps(payload),
      status |-> "pending",
      result |-> NoText,
      error_message |-> NoText,
      retry_count |-> 0,
      max_retries |-> max_retries,
      started_at |-> NoTime,
      completed_at |-> NoTime ]

NewTask(task_type, payload) ==
    [ task_type |-> task_type,
      payload |-> JsonDumps(payload),
      status |-> "pending",
      result |-> NoText,
      error_message |-> NoText,
      retry_count |-> 0,
      max_retries |-> settings.max_retries,
      started_at |-> NoTime,
      completed_at |-> NoTime ]

\* session.get(Task, task_id): the Task object a caller holds (detached copy)
GetTask(ts, task_id) ==
    [ id |-> task_id,
      task_type |-> ts[task_id].task_type,
      payload |-> ts[task_id].payload,
      retry_count |-> ts[task_id].retry_count,
      max_retries |-> ts[task_id].max_retries ]

\* update_task_status without the completed_at assignment
UpdateRowNoCompletedAt(row, status, result, error_message, t) ==
    [ row EXCEPT
        !.status = status,
        !.result = IF result # NoText THEN result ELSE @,
        !.error_message = IF error_message # NoText THEN error_message ELSE @,
        !.started_at = IF status = "running" /\ @ = NoTime THEN t ELSE @ ]

UpdateRow(row, status, result, error_message, t) ==
    [ row EXCEPT
        !.status = status,
        !.result = IF result # NoText THEN result ELSE @,
        !.error_message = IF error_message # NoText THEN error_message ELSE @,
        !.started_at = IF status = "running" /\ @ = NoTime THEN t ELSE @,
        !.completed_at = IF status \in {"completed", "failed"} THEN t ELSE @ ]

UpdateTaskStatus(ts, task_id, status, result, error_message, t) ==
    [ ts EXCEPT ![task_id] = UpdateRow(@, status, result, error_message, t) ]

MaxRetriesMessage == "Max retries exceeded"

\* retry_task whose retry branch has -= 1 for += 1
RetryRowCountsDown(row) ==
    IF row.retry_count >= row.max_retries
    THEN [ row EXCEPT !.status = "failed", !.error_message = MaxRetriesMessage ]
    ELSE [ row EXCEPT !.retry_count = @ - 1, !.status = "retrying",
                      !.error_message = NoText ]

RetryRow(row) ==
    IF row.retry_count >= row.max_retries
    THEN [ row EXCEPT !.status = "failed", !.error_message = MaxRetriesMessage ]
    ELSE [ row EXCEPT !.retry_count = @ + 1, !.status = "retrying",
                      !.error_message = NoText ]

\* retry_task that never puts the id back on the queue
RetryRequeuesNever(row) == FALSE

\* retry_task puts the id back on the in-process queue only in the retry branch
RetryRequeues(row) == row.retry_count < row.max_retries

RetryTask(ts, task_id) == [ ts EXCEPT ![task_id] = RetryRow(@) ]

(***************************************************************************)
(* History of the run, kept beside the program state.                      *)
(***************************************************************************)
NewObs == [ attempts |-> 0, delays |-> << >>, errors |-> << >>, note |-> "none",
            delivered |-> 0 ]

NoOp == [ op |-> "none" ]

ObsCreate(h) == [ h EXCEPT !.obs = Append(@, NewObs) ]

ObsAttempt(h, id) == [ h EXCEPT !.obs[id].attempts = @ + 1 ]

ObsDelivered(h, id) == [ h EXCEPT !.obs[id].delivered = @ + 1 ]

\* the runs of the control surface note what each request returned
ObsRet(h, r) == IF h.watch THEN [ h EXCEPT !.ret = r ] ELSE h

\* the runs of the retry handler on its own note each call: its name, the
\* kind and the breaker record of the kind before the call
ObsCall(h, op, task_type) ==
    IF deployment = "registry"
    THEN [ h EXCEPT !.call =
             [ op |-> op, kind |-> task_type,
               before |-> IF task_type \in DOMAIN circuit_breakers
                          THEN circuit_breakers[task_type]
                          ELSE [ state |-> "absent" ] ] ]
    ELSE h

(***************************************************************************)
(* Initial state: empty store and queues, worker idle.                     *)
(***************************************************************************)
Init ==
    /\ deployment \in Deployments
    /\ settings \in [ max_retries : MaxRetriesSettings ]
    /\ now = 0
    /\ nticks = 0
    /\ tasks = << >>
    /\ tq_queue = << >>
    /\ redis_list = << >>
    /\ processing = EmptyDict
    /\ circuit_breakers = EmptyDict
    /\ dead_tasks = EmptyDict
    /\ execution_stats = [ total_executed |-> 0, successful |-> 0,
                           failed |-> 0, retried |-> 0 ]
    /\ timers = << >>
    /\ w_pc = "idle"
    /\ w_data = NoData
    /\ w_task = NoTask
    /\ api = NoRequest
    /\ hist = [ obs |-> << >>, abandoned |-> {}, burst |-> [ k \in Kinds |-> 0 ],
                ret |-> NoOp, call |-> NoOp, watch |-> FALSE ]

(***************************************************************************)
(* TaskQueue.create_task called in the worker's process (integrated demo). *)
(***************************************************************************)
LocalTaskTypes == PipelineKinds \cup {"unknown_type"}

CreateTask(task_type) ==
    /\ deployment = "basic"
    /\ Len(tasks) < MaxTasks
    /\ tasks' = Append(tasks, NewTask(task_type, DictPayload))
    /\ tq_queue' = Append(tq_queue, Len(tasks) + 1)
    /\ hist' = ObsCreate(hist)
    /\ UNCHANGED << api, deployment, settings, now, nticks, redis_list, processing,
                    circuit_breakers, dead_tasks, execution_stats, timers,
                    w_pc, w_data, w_task >>

(***************************************************************************)
(* Wall clock.  Redis drops a processing key when its TTL has run out.     *)
(***************************************************************************)
Live(keys, t) ==
    [ k \in { x \in DOMAIN keys : keys[x] > t } |-> keys[k] ]

\* the number of clock advances is capped to keep the model finite
TickCap == IF deployment = "registry" THEN MaxRegistryTicks ELSE MaxTicks

Tick(d) ==
    /\ nticks < TickCap
    /\ nticks' = nticks + 1
    /\ now' = now + d
    /\ processing' = Live(processing, now + d)
    /\ UNCHANGED << api, deployment, settings, tasks, tq_queue, redis_list,
                    circuit_breakers, dead_tasks, execution_stats, timers,
                    w_pc, w_data, w_task, hist >>

(***************************************************************************)
(* Worker + TaskExecutor over the in-process queue.                        *)
(***************************************************************************)
\* TaskQueue.get_next_task: take the id at the head and load the task
WorkerGetNextTask ==
    /\ deployment = "basic"
    /\ w_pc = "idle"
    /\ tq_queue # << >>
    /\ tq_queue' = Tail(tq_queue)
    /\ w_task' = GetTask(tasks, Head(tq_queue))
    /\ w_pc' = "got"
    /\ hist' = ObsDelivered(hist, Head(tq_queue))
    /\ UNCHANGED << api, deployment, settings, now, nticks, tasks, redis_list,
                    processing, circuit_breakers, dead_tasks, execution_stats,
                    timers, w_data >>

\* TaskExecutor.execute_task up to the handler call
ExecuteTaskStart ==
    /\ deployment = "basic"
    /\ w_pc = "got"
    /\ tasks' = UpdateTaskStatus(tasks, w_task.id, "running", NoText, NoText, now)
    /\ w_pc' = "running"
    /\ hist' = ObsAttempt(hist, w_task.id)
    /\ UNCHANGED << api, deployment, settings, now, nticks, tq_queue, redis_list,
                    processing, circuit_breakers, dead_tasks, execution_stats,
                    timers, w_data, w_task >>

\* the handlers of TaskExecutor raise only for an unknown task type or a
\* payload that does not decode to a dict
BasicHandlerRaises(task) ==
    IF task.task_type \notin Kinds
    THEN { [type |-> "ValueError", msg |-> "Unknown task type"] }
    ELSE IF ~PayloadIsDict(task) THEN { AttributeError }
    ELSE {}

HandlerResult == "result"

ExecuteTaskSuccess ==
    /\ deployment = "basic"
    /\ w_pc = "running"
    /\ BasicHandlerRaises(w_task) = {}
    /\ tasks' = UpdateTaskStatus(tasks, w_task.id, "completed", HandlerResult, NoText, now)
    /\ w_pc' = "idle"
    /\ w_task' = NoTask
    /\ UNCHANGED << api, deployment, settings, now, nticks, tq_queue, redis_list,
                    processing, circuit_breakers, dead_tasks, execution_stats,
                    timers, w_data, hist >>

\* except branch up to the sleep before retry_task
ExecuteTaskFail ==
    /\ deployment = "basic"
    /\ w_pc = "running"
    /\ \E e \in BasicHandlerRaises(w_task) :
         /\ tasks' = UpdateTaskStatus(tasks, w_task.id, "failed", NoText, e.msg, now)
         /\ hist' = [ hist EXCEPT
                        !.obs[w_task.id].errors = Append(@, e.type),
                        !.obs[w_task.id].note =
                            IF w_task.retry_count >= w_task.max_retries
                            THEN "exhausted" ELSE "retries_left" ]
    /\ IF w_task.retry_count < w_task.max_retries
       THEN w_pc' = "sleeping" /\ w_task' = w_task
       ELSE w_pc' = "idle" /\ w_task' = NoTask
    /\ UNCHANGED << api, deployment, settings, now, nticks, tq_queue, redis_list,
                    processing, circuit_breakers, dead_tasks, execution_stats,
                    timers, w_data >>

\* after asyncio.sleep(settings.retry_delay): retry_task, then the re-raise
ExecuteTaskRetry ==
    /\ deployment = "basic"
    /\ w_pc = "sleeping"
    /\ tasks' = RetryTask(tasks, w_task.id)
    /\ tq_queue' = IF RetryRequeues(tasks[w_task.id])
                   THEN Append(tq_queue, w_task.id) ELSE tq_queue
    /\ w_pc' = "idle"
    /\ w_task' = NoTask
    /\ UNCHANGED << api, deployment, settings, now, nticks, redis_list, processing,
                    circuit_breakers, dead_tasks, execution_stats, timers,
                    w_data, hist >>

(***************************************************************************)
(* RetryHandler: circuit breakers.                                         *)
(***************************************************************************)
NewBreaker == [ failures |-> 0, last_failure |-> NoTime, state |-> "closed" ]

\* the registry after the lazy creation of the record of task_type
WithBreaker(cb, task_type) ==
    IF task_type \in DOMAIN cb THEN cb ELSE Put(cb, task_type, NewBreaker)

\* _check_circuit_breaker that lets requests through while the breaker is open
CheckCircuitBreakerAlwaysAllows(cb, task_type, t) ==
    [ cb |-> WithBreaker(cb, task_type), ok |-> TRUE ]

\* _check_circuit_breaker that compares the elapsed time with >= instead of >
CheckCircuitBreakerEarly(cb, task_type, t) ==
    LET cb1 == WithBreaker(cb, task_type)
        breaker == cb1[task_type]
    IN  IF breaker.state = "open"
        THEN IF breaker.last_failure # NoTime
                /\ (t - breaker.last_failure) >= recovery_timeout
             THEN [ cb |-> [ cb1 EXCEPT ![task_type].state = "half_open" ],
                    ok |-> TRUE ]
             ELSE [ cb |-> cb1, ok |-> FALSE ]
        ELSE [ cb |-> cb1, ok |-> TRUE ]

\* _check_circuit_breaker: the registry afterwards and the value returned
CheckCircuitBreaker(cb, task_type, t) ==
    LET cb1 == WithBreaker(cb, task_type)
        breaker == cb1[task_type]
    IN  IF breaker.state = "open"
        THEN IF breaker.last_failure # NoTime
                /\ (t - breaker.last_failure) > recovery_timeout
             THEN [ cb |-> [ cb1 EXCEPT ![task_type].state = "half_open" ],
                    ok |-> TRUE ]
             ELSE [ cb |-> cb1, ok |-> FALSE ]
        ELSE [ cb |-> cb1, ok |-> TRUE ]

\* record_success that closes a half_open breaker but keeps its counter
RecordSuccessKeepsCount(cb, task_type) ==
    IF task_type \in DOMAIN cb /\ cb[task_type].state = "half_open"
    THEN [ cb EXCEPT ![task_type].state = "closed" ]
    ELSE cb

\* record_success that also clears the count of a closed breaker
RecordSuccessResetsClosed(cb, task_type) ==
    IF task_type \in DOMAIN cb /\ cb[task_type].state \in {"half_open", "closed"}
    THEN [ cb EXCEPT ![task_type].state = "closed", ![task_type].failures = 0 ]
    ELSE cb

RecordSuccess(cb, task_type) ==
    IF task_type \in DOMAIN cb /\ cb[task_type].state = "half_open"
    THEN [ cb EXCEPT ![task_type].state = "closed", ![task_type].failures = 0 ]
    ELSE cb

\* record_failure that opens the breaker only above the threshold
RecordFailureAboveThreshold(cb, task_type, t) ==
    LET cb1 == WithBreaker(cb, task_type)
        failures == cb1[task_type].failures + 1
    IN  [ cb1 EXCEPT
            ![task_type].failures = failures,
            ![task_type].last_failure = t,
            ![task_type].state =
                IF failures > failure_threshold /\ @ # "open" THEN "open" ELSE @ ]

\* record_failure that keeps the last_failure of a breaker that is open
RecordFailureKeepsTime(cb, task_type, t) ==
    LET cb1 == WithBreaker(cb, task_type)
        failures == cb1[task_type].failures + 1
    IN  [ cb1 EXCEPT
            ![task_type].failures = failures,
            ![task_type].last_failure = IF cb1[task_type].state = "open" THEN @ ELSE t,
            ![task_type].state =
                IF failures >= failure_threshold /\ @ # "open" THEN "open" ELSE @ ]

RecordFailure(cb, task_type, t) ==
    LET cb1 == WithBreaker(cb, task_type)
        failures == cb1[task_type].failures + 1
    IN  [ cb1 EXCEPT
            ![task_type].failures = failures,
            ![task_type].last_failure = t,
            ![task_type].state =
                IF failures >= failure_threshold /\ @ # "open" THEN "open" ELSE @ ]

\* reset_circuit_breaker that drops the record instead of zeroing it
ResetBreakerDeletes(cb, task_type) ==
    IF task_type \in DOMAIN cb THEN Del(cb, task_type) ELSE cb

\* reset_circuit_breaker that closes the breaker and keeps its count
ResetBreakerKeepsCount(cb, task_type) ==
    IF task_type \in DOMAIN cb
    THEN [ cb EXCEPT ![task_type].state = "closed" ]
    ELSE cb

ResetBreaker(cb, task_type) ==
    IF task_type \in DOMAIN cb THEN [ cb EXCEPT ![task_type] = NewBreaker ] ELSE cb

\* the failure counter is capped to keep the model finite
FailureCap == IF deployment = "registry" THEN MaxRegistryFailures ELSE MaxFailures

CanRecordFailure(cb, task_type) ==
    IF task_type \in DOMAIN cb THEN cb[task_type].failures < FailureCap ELSE TRUE

(***************************************************************************)
(* RetryHandler: strategy and delay.                                       *)
(***************************************************************************)
RECURSIVE Pow2(_)
Pow2(n) == IF n = 0 THEN 1 ELSE 2 * Pow2(n - 1)

Min(a, b) == IF a <= b THEN a ELSE b

GetRetryStrategy(task_type, error) ==
    IF error.type \in {"ConnectionError", "TimeoutError", "NetworkError"}
    THEN "exponential"
    ELSE IF error.type \in {"RateLimitError", "TooManyRequestsError"}
    THEN "jitter"
    ELSE IF error.type \in {"DatabaseError", "ConnectionPoolError"}
    THEN "linear"
    ELSE "exponential"

\* int(exponential_delay + random.uniform(0.1, 0.3) * exponential_delay)
JitterDelays(exponential_delay) ==
    { d \in exponential_delay .. (2 * exponential_delay) :
        /\ 10 * d + 10 > 11 * exponential_delay
        /\ 10 * d <= 13 * exponential_delay }

\* _calculate_retry_delay whose exponential branch returns delay without min
CalculateRetryDelayUncapped(task, error) ==
    LET strategy == GetRetryStrategy(task.task_type, error)
        base_delay == retry_delay
    IN  IF strategy = "fixed" THEN { base_delay }
        ELSE IF strategy = "exponential"
        THEN { base_delay * Pow2(task.retry_count) }
        ELSE IF strategy = "linear"
        THEN { Min(base_delay * (task.retry_count + 1), LinearCap) }
        ELSE IF strategy = "jitter"
        THEN { Min(d, ExponentialCap) :
                 d \in JitterDelays(base_delay * Pow2(task.retry_count)) }
        ELSE { base_delay }

\* _calculate_retry_delay: the delays it can return
CalculateRetryDelay(task, error) ==
    LET strategy == GetRetryStrategy(task.task_type, error)
        base_delay == retry_delay
    IN  IF strategy = "fixed" THEN { base_delay }
        ELSE IF strategy = "exponential"
        THEN { Min(base_delay * Pow2(task.retry_count), ExponentialCap) }
        ELSE IF strategy = "linear"
        THEN { Min(base_delay * (task.retry_count + 1), LinearCap) }
        ELSE IF strategy = "jitter"
        THEN { Min(d, ExponentialCap) :
                 d \in JitterDelays(base_delay * Pow2(task.retry_count)) }
        ELSE { base_delay }

NoDelay == 0 - 1

\* should_retry whose exhaustion test is > instead of >=
ShouldRetryOneMore(cb, task, error, t) ==
    IF task.retry_count > task.max_retries
    THEN { [ cb |-> cb, retry |-> FALSE, delay |-> NoDelay, why |-> "exhausted" ] }
    ELSE LET chk == CheckCircuitBreaker(cb, task.task_type, t)
         IN  IF ~chk.ok
             THEN { [ cb |-> chk.cb, retry |-> FALSE, delay |-> NoDelay,
                      why |-> "breaker" ] }
             ELSE { [ cb |-> chk.cb, retry |-> TRUE, delay |-> d, why |-> "retry" ] :
                      d \in CalculateRetryDelay(task, error) }

\* should_retry that asks the breaker before it looks at retry_count
ShouldRetryBreakerFirst(cb, task, error, t) ==
    LET chk == CheckCircuitBreaker(cb, task.task_type, t)
    IN  IF ~chk.ok
        THEN { [ cb |-> chk.cb, retry |-> FALSE, delay |-> NoDelay,
                 why |-> "breaker" ] }
        ELSE IF task.retry_count >= task.max_retries
        THEN { [ cb |-> chk.cb, retry |-> FALSE, delay |-> NoDelay,
                 why |-> "exhausted" ] }
        ELSE { [ cb |-> chk.cb, retry |-> TRUE, delay |-> d, why |-> "retry" ] :
                 d \in CalculateRetryDelay(task, error) }

\* should_retry: the possible outcomes (registry afterwards, decision, delay)
ShouldRetry(cb, task, error, t) ==
    IF task.retry_count >= task.max_retries
    THEN { [ cb |-> cb, retry |-> FALSE, delay |-> NoDelay, why |-> "exhausted" ] }
    ELSE LET chk == CheckCircuitBreaker(cb, task.task_type, t)
         IN  IF ~chk.ok
             THEN { [ cb |-> chk.cb, retry |-> FALSE, delay |-> NoDelay,
                      why |-> "breaker" ] }
             ELSE { [ cb |-> chk.cb, retry |-> TRUE, delay |-> d, why |-> "retry" ] :
                      d \in CalculateRetryDelay(task, error) }

(***************************************************************************)
(* RedisTaskQueue.                                                         *)
(***************************************************************************)
Envelope(task_id, task_type, payload) ==
    [ id |-> task_id, task_type |-> task_type, payload |-> payload ]

\* lpush adds at the left end, brpop takes from the right end
LPush(list, x) == << x >> \o list

\* a pop that reads the right end and leaves it on the list
DropRightKeeps(list) == list

\* the element a pop from the left end (blpop) would give
LeftEnd(list) == list[1]

RightEnd(list) == list[Len(list)]

DropRight(list) == SubSeq(list, 1, Len(list) - 1)

RemoveAt(seq, i) == SubSeq(seq, 1, i - 1) \o SubSeq(seq, i + 1, Len(seq))

\* rows the runs create at most: with concurrent requeue calls, the dead
\* task and one row per call
RowCap == IF api.step = "calls" THEN 1 + MaxCalls ELSE MaxTasks

\* redis_queue.create_task: task_queue.create_task, then lpush of the envelope
RedisCreateTask(task_type, payload) ==
    /\ Len(tasks) < RowCap
    /\ tasks' = Append(tasks, NewTask(task_type, payload))
    /\ tq_queue' = Append(tq_queue, Len(tasks) + 1)
    /\ redis_list' = LPush(redis_list, Envelope(Len(tasks) + 1, task_type, payload))

\* get_processing_count
ProcessingCount == Cardinality(DOMAIN processing)

\* status codes of POST /tasks/
Created == 201

BadRequest == 400

InternalServerError == 500

\* POST /tasks/ with a valid task type
SubmitTask(task_type) ==
    /\ deployment = "enhanced"
    /\ task_type \in Kinds
    /\ RedisCreateTask(task_type, DictPayload)
    /\ hist' = ObsRet(ObsCreate(hist),
                      [ op |-> "create_task", status |-> Created,
                        id |-> Len(tasks) + 1 ])
    /\ UNCHANGED << api, deployment, settings, now, nticks, processing,
                    circuit_breakers, dead_tasks, execution_stats, timers,
                    w_pc, w_data, w_task >>

(***************************************************************************)
(* DeadLetterQueue.                                                        *)
(***************************************************************************)
DeadLetter(task, error, t) ==
    [ task_id |-> task.id,
      task_type |-> task.task_type,
      payload |-> task.payload,
      error_message |-> error.msg,
      error_type |-> error.type,
      retry_count |-> task.retry_count,
      max_retries |-> task.max_retries,
      failed_at |-> t ]

AddDeadLetter(dt, task, error, t) == Put(dt, task.id, DeadLetter(task, error, t))

(***************************************************************************)
(* EnhancedWorker + EnhancedTaskExecutor over the Redis queue.             *)
(***************************************************************************)
\* redis_queue.get_next_task: brpop, then set processing:<id> with ex=300
RedisGetNextTask ==
    /\ deployment = "enhanced"
    /\ w_pc = "idle"
    /\ redis_list # << >>
    /\ redis_list' = DropRight(redis_list)
    /\ processing' = Put(processing, RightEnd(redis_list).id, now + ProcessingTTL)
    /\ w_data' = RightEnd(redis_list)
    /\ w_pc' = "got"
    /\ hist' = ObsDelivered(hist, RightEnd(redis_list).id)
    /\ UNCHANGED << api, deployment, settings, now, nticks, tasks, tq_queue,
                    circuit_breakers, dead_tasks, execution_stats, timers,
                    w_task >>

\* _process_task: get_task, then execute_task up to the handler call
EnhancedExecuteStart ==
    /\ deployment = "enhanced"
    /\ w_pc = "got"
    /\ w_data.id \in TaskIds
    /\ w_task' = GetTask(tasks, w_data.id)
    /\ execution_stats' = [ execution_stats EXCEPT !.total_executed = @ + 1 ]
    /\ tasks' = UpdateTaskStatus(tasks, w_data.id, "running", NoText, NoText, now)
    /\ w_pc' = "running"
    /\ hist' = ObsAttempt(hist, w_data.id)
    /\ UNCHANGED << api, deployment, settings, now, nticks, tq_queue, redis_list,
                    processing, circuit_breakers, dead_tasks, timers, w_data >>

\* errors the handlers of EnhancedTaskExecutor simulate, by task type
SimulatedErrors(task_type) ==
    IF task_type = "text_processing"
    THEN { [type |-> "ConnectionError",
            msg |-> "Simulated network error during text processing"],
           [type |-> "TimeoutError",
            msg |-> "Simulated timeout during text processing"] }
    ELSE IF task_type = "ai_summarization"
    THEN { [type |-> "Exception", msg |-> "RateLimitError: API rate limit exceeded"] }
    ELSE { [type |-> "ValueError", msg |-> "Unknown task type"] }

EnhancedHandlerRaises(task) ==
    IF task.task_type \notin Kinds THEN SimulatedErrors(task.task_type)
    ELSE IF ~PayloadIsDict(task) THEN { AttributeError }
    ELSE SimulatedErrors(task.task_type)

EnhancedHandlerReturns(task) == task.task_type \in Kinds /\ PayloadIsDict(task)

\* success path of execute_task without the count of the success
EnhancedExecuteSuccessUncounted ==
    /\ deployment = "enhanced"
    /\ w_pc = "running"
    /\ EnhancedHandlerReturns(w_task)
    /\ tasks' = UpdateTaskStatus(tasks, w_task.id, "completed", HandlerResult, NoText, now)
    /\ circuit_breakers' = RecordSuccess(circuit_breakers, w_task.task_type)
    /\ execution_stats' = execution_stats
    /\ processing' = Del(processing, w_task.id)
    /\ w_pc' = "idle"
    /\ w_data' = NoData
    /\ w_task' = NoTask
    /\ hist' = [ hist EXCEPT !.burst[w_task.task_type] = 0 ]
    /\ UNCHANGED << api, deployment, settings, now, nticks, tq_queue, redis_list,
                    dead_tasks, timers >>

\* success path of execute_task, then complete_task in _process_task
EnhancedExecuteSuccess ==
    /\ deployment = "enhanced"
    /\ w_pc = "running"
    /\ EnhancedHandlerReturns(w_task)
    /\ tasks' = UpdateTaskStatus(tasks, w_task.id, "completed", HandlerResult, NoText, now)
    /\ circuit_breakers' = RecordSuccess(circuit_breakers, w_task.task_type)
    /\ execution_stats' = [ execution_stats EXCEPT !.successful = @ + 1 ]
    /\ processing' = Del(processing, w_task.id)
    /\ w_pc' = "idle"
    /\ w_data' = NoData
    /\ w_task' = NoTask
    /\ hist' = [ hist EXCEPT !.burst[w_task.task_type] = 0 ]
    /\ UNCHANGED << api, deployment, settings, now, nticks, tq_queue, redis_list,
                    dead_tasks, timers >>

\* _schedule_retry: persist RETRYING, count the retry on the held Task
\* object, start the _retry_after_delay coroutine
Timer(task, delay, t) ==
    [ task |-> [ task EXCEPT !.retry_count = @ + 1 ], delay |-> delay,
      due |-> t + delay ]

\* except path of execute_task whose _schedule_retry starts the timer
\* without the update of the status to RETRYING
EnhancedExecuteFailKeepsRunning ==
    /\ deployment = "enhanced"
    /\ w_pc = "running"
    /\ CanRecordFailure(circuit_breakers, w_task.task_type)
    /\ \E e \in EnhancedHandlerRaises(w_task) :
       \E out \in ShouldRetry(RecordFailure(circuit_breakers, w_task.task_type, now),
                              w_task, e, now) :
         /\ circuit_breakers' = out.cb
         /\ IF out.retry
            THEN /\ tasks' = tasks
                 /\ timers' = Append(timers, Timer(w_task, out.delay, now))
                 /\ execution_stats' = [ execution_stats EXCEPT !.retried = @ + 1 ]
                 /\ dead_tasks' = dead_tasks
            ELSE /\ tasks' = UpdateTaskStatus(tasks, w_task.id, "failed",
                                              NoText, e.msg, now)
                 /\ dead_tasks' = AddDeadLetter(dead_tasks, w_task, e, now)
                 /\ execution_stats' = [ execution_stats EXCEPT !.failed = @ + 1 ]
                 /\ timers' = timers
         /\ hist' = [ hist EXCEPT
                        !.burst[w_task.task_type] = @ + 1,
                        !.obs[w_task.id].note = out.why,
                        !.obs[w_task.id].errors = Append(@, e.type),
                        !.obs[w_task.id].delays =
                            IF out.retry THEN Append(@, out.delay) ELSE @ ]
    /\ w_pc' = "idle"
    /\ w_data' = NoData
    /\ w_task' = NoTask
    /\ UNCHANGED << api, deployment, settings, now, nticks, tq_queue, redis_list,
                    processing >>

\* except path of execute_task; _process_task swallows the re-raise
EnhancedExecuteFail ==
    /\ deployment = "enhanced"
    /\ w_pc = "running"
    /\ CanRecordFailure(circuit_breakers, w_task.task_type)
    /\ \E e \in EnhancedHandlerRaises(w_task) :
       \E out \in ShouldRetry(RecordFailure(circuit_breakers, w_task.task_type, now),
                              w_task, e, now) :
         /\ circuit_breakers' = out.cb
         /\ IF out.retry
            THEN /\ tasks' = UpdateTaskStatus(tasks, w_task.id, "retrying",
                                              NoText, NoText, now)
                 /\ timers' = Append(timers, Timer(w_task, out.delay, now))
                 /\ execution_stats' = [ execution_stats EXCEPT !.retried = @ + 1 ]
                 /\ dead_tasks' = dead_tasks
            ELSE /\ tasks' = UpdateTaskStatus(tasks, w_task.id, "failed",
                                              NoText, e.msg, now)
                 /\ dead_tasks' = AddDeadLetter(dead_tasks, w_task, e, now)
                 /\ execution_stats' = [ execution_stats EXCEPT !.failed = @ + 1 ]
                 /\ timers' = timers
         /\ hist' = [ hist EXCEPT
                        !.burst[w_task.task_type] = @ + 1,
                        !.obs[w_task.id].note = out.why,
                        !.obs[w_task.id].errors = Append(@, e.type),
                        !.obs[w_task.id].delays =
                            IF out.retry THEN Append(@, out.delay) ELSE @ ]
    /\ w_pc' = "idle"
    /\ w_data' = NoData
    /\ w_task' = NoTask
    /\ UNCHANGED << api, deployment, settings, now, nticks, tq_queue, redis_list,
                    processing >>

\* _retry_after_delay once the sleep is over
RetryAfterDelay(i) ==
    /\ i \in DOMAIN timers
    /\ timers[i].due <= now
    /\ w_pc # "exited"
    /\ RedisCreateTask(timers[i].task.task_type, JsonLoads(timers[i].task.payload))
    /\ timers' = RemoveAt(timers, i)
    /\ hist' = ObsCreate(hist)
    /\ UNCHANGED << api, deployment, settings, now, nticks, processing,
                    circuit_breakers, dead_tasks, execution_stats,
                    w_pc, w_data, w_task >>

(***************************************************************************)
(* Control surface: retry management and queue endpoints.                  *)
(***************************************************************************)
\* a call of retry_handler.record_failure
RecordFailureCall(task_type) ==
    /\ CanRecordFailure(circuit_breakers, task_type)
    /\ circuit_breakers' = RecordFailure(circuit_breakers, task_type, now)
    /\ hist' = ObsCall([ hist EXCEPT !.burst[task_type] = @ + 1 ],
                       "record_failure", task_type)
    /\ UNCHANGED << api, deployment, settings, now, nticks, tasks, tq_queue,
                    redis_list, processing, dead_tasks, execution_stats,
                    timers, w_pc, w_data, w_task >>

\* a call of retry_handler.reset_circuit_breaker
ResetCall(task_type) ==
    /\ task_type \in DOMAIN circuit_breakers
    /\ circuit_breakers' = ResetBreaker(circuit_breakers, task_type)
    /\ hist' = ObsCall([ hist EXCEPT !.burst[task_type] = 0 ],
                       "reset_circuit_breaker", task_type)
    /\ UNCHANGED << api, deployment, settings, now, nticks, tasks, tq_queue,
                    redis_list, processing, dead_tasks, execution_stats,
                    timers, w_pc, w_data, w_task >>

\* POST /retry/simulate-failure
SimulateFailure(task_type) ==
    /\ deployment = "enhanced"
    /\ RecordFailureCall(task_type)

\* POST /retry/circuit-breakers/{task_type}/reset
ResetCircuitBreaker(task_type) ==
    /\ deployment = "enhanced"
    /\ ResetCall(task_type)

\* DeadLetterQueue.retry_dead_letter for an id that is in the dead letter queue
RetryDeadLetter(task_id) ==
    /\ deployment = "enhanced"
    /\ task_id \in DOMAIN dead_tasks
    /\ Len(tasks) < MaxTasks
    /\ tasks' = Append(UpdateTaskStatus(tasks, task_id, "pending", NoText, NoText, now),
                       NewTask(tasks[task_id].task_type, dead_tasks[task_id].payload))
    /\ tq_queue' = Append(tq_queue, Len(tasks) + 1)
    /\ redis_list' = LPush(redis_list,
                           Envelope(Len(tasks) + 1, tasks[task_id].task_type,
                                    dead_tasks[task_id].payload))
    /\ dead_tasks' = Del(dead_tasks, task_id)
    /\ hist' = ObsCreate(hist)
    /\ UNCHANGED << api, deployment, settings, now, nticks, processing,
                    circuit_breakers, execution_stats, timers,
                    w_pc, w_data, w_task >>

\* DeadLetterQueue.retry_dead_letter for an id that is not there
RetryDeadLetterMissing(task_id) ==
    /\ deployment = "enhanced"
    /\ task_id \notin DOMAIN dead_tasks
    /\ UNCHANGED vars

\* ids purge_dead_letters removes
\* purge_dead_letters that compares failed_at with <= instead of <
PurgeSetInclusive(dt, task_type, older_than_hours, t) ==
    { id \in DOMAIN dt :
        /\ ~(task_type # NoText /\ dt[id].task_type # task_type)
        /\ dt[id].failed_at <= t - older_than_hours * 3600 }

PurgeSet(dt, task_type, older_than_hours, t) ==
    { id \in DOMAIN dt :
        /\ ~(task_type # NoText /\ dt[id].task_type # task_type)
        /\ dt[id].failed_at < t - older_than_hours * 3600 }

PurgeHours == {0, DefaultOlderThanHours}

\* DELETE /retry/dead-letters
PurgeDeadLetters(task_type, older_than_hours) ==
    /\ deployment = "enhanced"
    /\ dead_tasks # EmptyDict
    /\ LET gone == PurgeSet(dead_tasks, task_type, older_than_hours, now)
       IN  /\ dead_tasks' = [ id \in (DOMAIN dead_tasks) \ gone |-> dead_tasks[id] ]
           /\ hist' = ObsRet(hist, [ op |-> "purge_dead_letters",
                                     count |-> Cardinality(gone) ])
    /\ UNCHANGED << api, deployment, settings, now, nticks, tasks, tq_queue,
                    redis_list, processing, circuit_breakers, execution_stats,
                    timers, w_pc, w_data, w_task >>

\* cleanup_stale_tasks deletes the processing keys whose ttl is -1 (no expiry)
\* cleanup_stale_tasks that takes the keys that do have a TTL
StaleKeysWithTtl(keys) == { k \in DOMAIN keys : keys[k] # NoTime }

StaleKeys(keys) == { k \in DOMAIN keys : keys[k] = NoTime }

\* cleanup_stale_tasks that deletes every key it lists and pushes an
\* envelope for its task
CleanupStaleTasksRequeues ==
    /\ deployment = "enhanced"
    /\ processing # EmptyDict
    /\ processing' = EmptyDict
    /\ redis_list' = redis_list \o
                       [ i \in 1 .. Len(tasks) |->
                           Envelope(i, tasks[i].task_type, JsonLoads(tasks[i].payload)) ]
    /\ hist' = ObsRet(hist, [ op |-> "cleanup_stale_tasks",
                              keys |-> DOMAIN processing ])
    /\ UNCHANGED << api, deployment, settings, now, nticks, tasks, tq_queue,
                    circuit_breakers, dead_tasks, execution_stats,
                    timers, w_pc, w_data, w_task >>

\* POST /tasks/queue/cleanup
CleanupStaleTasks ==
    /\ deployment = "enhanced"
    /\ processing # EmptyDict
    /\ processing' = [ k \in (DOMAIN processing) \ StaleKeys(processing) |->
                         processing[k] ]
    /\ hist' = ObsRet(hist, [ op |-> "cleanup_stale_tasks",
                              keys |-> DOMAIN processing ])
    /\ UNCHANGED << api, deployment, settings, now, nticks, tasks, tq_queue,
                    redis_list, circuit_breakers, dead_tasks, execution_stats,
                    timers, w_pc, w_data, w_task >>

(***************************************************************************)
(* Shutdown: _signal_handler calls stop() and sys.exit(0) at whatever      *)
(* point the worker coroutine is; pending coroutines die with the loop.    *)
(***************************************************************************)
HeldId == IF w_pc = "idle" \/ w_pc = "exited" THEN 0
          ELSE IF deployment = "enhanced" THEN w_data.id ELSE w_task.id

SignalHandler ==
    /\ w_pc # "exited"
    /\ w_pc' = "exited"
    /\ w_data' = NoData
    /\ w_task' = NoTask
    /\ timers' = << >>
    /\ hist' = [ hist EXCEPT !.abandoned = IF HeldId = 0 THEN @ ELSE @ \cup {HeldId} ]
    /\ UNCHANGED << api, deployment, settings, now, nticks, tasks, tq_queue,
                    redis_list, processing, circuit_breakers, dead_tasks,
                    execution_stats >>

(***************************************************************************)
(* The system.                                                             *)
(***************************************************************************)
Next ==
    \/ \E task_type \in LocalTaskTypes : CreateTask(task_type)
    \/ \E d \in TickSteps : Tick(d)
    \/ WorkerGetNextTask
    \/ ExecuteTaskStart
    \/ ExecuteTaskSuccess
    \/ ExecuteTaskFail
    \/ ExecuteTaskRetry
    \/ \E task_type \in PipelineKinds : SubmitTask(task_type)
    \/ RedisGetNextTask
    \/ EnhancedExecuteStart
    \/ EnhancedExecuteSuccess
    \/ EnhancedExecuteFail
    \/ \E i \in 1..MaxTasks : RetryAfterDelay(i)
    \/ \E task_type \in PipelineKinds : SimulateFailure(task_type)
    \/ \E task_type \in PipelineKinds : ResetCircuitBreaker(task_type)
    \/ \E task_id \in 1..MaxTasks : RetryDeadLetter(task_id)
    \/ \E task_id \in 1..MaxTasks : RetryDeadLetterMissing(task_id)
    \/ \E task_type \in PipelineKinds \cup {NoText}, h \in PurgeHours :
         PurgeDeadLetters(task_type, h)
    \/ CleanupStaleTasks
    \/ SignalHandler

Spec == Init /\ [][Next]_vars

(***************************************************************************)
(* The retry handler on its own: its methods called in any order.          *)
(***************************************************************************)
\* Task objects handed to should_retry
RegistryTasks ==
    { [ id |-> 1, task_type |-> k, payload |-> JsonDumps(DictPayload),
        retry_count |-> n, max_retries |-> max_retries ] :
      k \in Kinds, n \in {0, max_retries} }

RegistryErrors == { [type |-> "TimeoutError", msg |-> "timeout"] }

\* clock advances that probe both sides of recovery_timeout
RegistryTickSteps == {1, recovery_timeout}

InitRegistry ==
    /\ deployment = "registry"
    /\ settings = [ max_retries |-> max_retries ]
    /\ now = 0
    /\ nticks = 0
    /\ tasks = << >>
    /\ tq_queue = << >>
    /\ redis_list = << >>
    /\ processing = EmptyDict
    /\ circuit_breakers = EmptyDict
    /\ dead_tasks = EmptyDict
    /\ execution_stats = [ total_executed |-> 0, successful |-> 0,
                           failed |-> 0, retried |-> 0 ]
    /\ timers = << >>
    /\ w_pc = "idle"
    /\ w_data = NoData
    /\ w_task = NoTask
    /\ api = NoRequest
    /\ hist = [ obs |-> << >>, abandoned |-> {}, burst |-> [ k \in Kinds |-> 0 ],
                ret |-> NoOp, call |-> NoOp, watch |-> FALSE ]

\* a call of retry_handler.record_success
RecordSuccessCall(task_type) ==
    /\ circuit_breakers' = RecordSuccess(circuit_breakers, task_type)
    /\ hist' = ObsCall([ hist EXCEPT !.burst[task_type] = 0 ],
                       "record_success", task_type)
    /\ UNCHANGED << api, deployment, settings, now, nticks, tasks, tq_queue,
                    redis_list, processing, dead_tasks, execution_stats,
                    timers, w_pc, w_data, w_task >>

\* a call of retry_handler.should_retry; hist.ret keeps what it returned
ShouldRetryCall(task, error) ==
    /\ \E out \in ShouldRetry(circuit_breakers, task, error, now) :
         /\ circuit_breakers' = out.cb
         /\ hist' = ObsCall([ hist EXCEPT
                               !.ret = [ op |-> "should_retry",
                                         kind |-> task.task_type,
                                         retry |-> out.retry,
                                         delay |-> out.delay ] ],
                            "should_retry", task.task_type)
    /\ UNCHANGED << api, deployment, settings, now, nticks, tasks, tq_queue,
                    redis_list, processing, dead_tasks, execution_stats,
                    timers, w_pc, w_data, w_task >>

NextRegistry ==
    \/ \E task_type \in PipelineKinds : RecordFailureCall(task_type)
    \/ \E task_type \in Kinds : RecordSuccessCall(task_type)
    \/ \E task \in RegistryTasks, error \in RegistryErrors :
         ShouldRetryCall(task, error)
    \/ \E task_type \in Kinds : ResetCall(task_type)
    \/ \E d \in RegistryTickSteps : Tick(d)

SpecRegistry == InitRegistry /\ [][NextRegistry]_vars

TypeOK ==
    /\ deployment \in Deployments \cup {"registry", "backoff", "store"}
    /\ now \in Nat
    /\ w_pc \in {"idle", "got", "running", "sleeping", "exited"}
    /\ \A id \in TaskIds :
         tasks[id].status \in {"pending", "running", "completed", "failed", "retrying"}

(***************************************************************************)
(* The enhanced worker and the submissions alone: no request to the retry  *)
(* management endpoints, no shutdown.                                      *)
(***************************************************************************)
InitWorker ==
    /\ deployment = "enhanced"
    /\ settings \in [ max_retries : MaxRetriesSettings ]
    /\ now = 0
    /\ nticks = 0
    /\ tasks = << >>
    /\ tq_queue = << >>
    /\ redis_list = << >>
    /\ processing = EmptyDict
    /\ circuit_breakers = EmptyDict
    /\ dead_tasks = EmptyDict
    /\ execution_stats = [ total_executed |-> 0, successful |-> 0,
                           failed |-> 0, retried |-> 0 ]
    /\ timers = << >>
    /\ w_pc = "idle"
    /\ w_data = NoData
    /\ w_task = NoTask
    /\ api = NoRequest
    /\ hist = [ obs |-> << >>, abandoned |-> {}, burst |-> [ k \in Kinds |-> 0 ],
                ret |-> NoOp, call |-> NoOp, watch |-> TRUE ]

NextWorker ==
    \/ \E task_type \in PipelineKinds : SubmitTask(task_type)
    \/ RedisGetNextTask
    \/ EnhancedExecuteStart
    \/ EnhancedExecuteSuccess
    \/ EnhancedExecuteFail
    \/ \E i \in 1..MaxTasks : RetryAfterDelay(i)
    \/ CleanupStaleTasks
    \/ \E d \in TickSteps : Tick(d)

SpecWorker == InitWorker /\ [][NextWorker]_vars

\* the worker loop keeps running, each handler call returns or raises, the
\* clock advances and each _retry_after_delay coroutine is resumed once its
\* sleep is over; submissions and cleanups are up to the clients
FairWorker ==
    /\ WF_vars(RedisGetNextTask)
    /\ WF_vars(EnhancedExecuteStart)
    /\ WF_vars(EnhancedExecuteSuccess \/ EnhancedExecuteFail)
    /\ WF_vars(\E i \in 1..MaxTasks : RetryAfterDelay(i))
    /\ WF_vars(\E d \in TickSteps : Tick(d))

SpecWorkerFair == InitWorker /\ [][NextWorker]_vars /\ FairWorker

(***************************************************************************)
(* The enhanced worker with the two breaker endpoints: simulate-failure    *)
(* and reset.                                                              *)
(***************************************************************************)
NextExecutor ==
    \/ NextWorker
    \/ \E task_type \in PipelineKinds : SimulateFailure(task_type)
    \/ \E task_type \in PipelineKinds : ResetCircuitBreaker(task_type)

SpecExecutor == InitWorker /\ [][NextExecutor]_vars

(***************************************************************************)
(* Several worker processes on one Redis list.  Each runs the loop of      *)
(* EnhancedWorker.start; api keeps, per worker, where it is in             *)
(* get_next_task (before brpop, or between brpop and the set of the        *)
(* processing key), the envelope brpop gave it, and the ids get_next_task  *)
(* has returned to it so far.  What a worker does with an envelope touches *)
(* the list only through create_task, which SubmitTask covers.             *)
(***************************************************************************)
WorkerIds == 1..MaxWorkers

InitPool ==
    /\ deployment = "enhanced"
    /\ settings = [ max_retries |-> max_retries ]
    /\ now = 0
    /\ nticks = 0
    /\ tasks = << >>
    /\ tq_queue = << >>
    /\ redis_list = << >>
    /\ processing = EmptyDict
    /\ circuit_breakers = EmptyDict
    /\ dead_tasks = EmptyDict
    /\ execution_stats = [ total_executed |-> 0, successful |-> 0,
                           failed |-> 0, retried |-> 0 ]
    /\ timers = << >>
    /\ w_pc = "idle"
    /\ w_data = NoData
    /\ w_task = NoTask
    /\ api = [ step |-> "pool",
               pc |-> [ w \in WorkerIds |-> "idle" ],
               data |-> [ w \in WorkerIds |-> NoData ],
               held |-> [ w \in WorkerIds |-> << >> ] ]
    /\ hist = [ obs |-> << >>, abandoned |-> {}, burst |-> [ k \in Kinds |-> 0 ],
                ret |-> NoOp, call |-> NoOp, watch |-> FALSE ]

\* get_next_task of worker w, the brpop: one Redis command
PoolBrpop(w) ==
    /\ api.step = "pool"
    /\ api.pc[w] = "idle"
    /\ redis_list # << >>
    /\ redis_list' = DropRight(redis_list)
    /\ api' = [ api EXCEPT !.pc[w] = "popped", !.data[w] = RightEnd(redis_list) ]
    /\ UNCHANGED << deployment, settings, now, nticks, tasks, tq_queue,
                    processing, circuit_breakers, dead_tasks, execution_stats,
                    timers, w_pc, w_data, w_task, hist >>

\* get_next_task of worker w, after the brpop: json.loads, set of the
\* processing key with its TTL, return of the envelope
PoolReturn(w) ==
    /\ api.step = "pool"
    /\ api.pc[w] = "popped"
    /\ processing' = Put(processing, api.data[w].id, now + ProcessingTTL)
    /\ api' = [ api EXCEPT !.pc[w] = "idle", !.data[w] = NoData,
                           !.held[w] = Append(@, api.data[w].id) ]
    /\ hist' = ObsDelivered(hist, api.data[w].id)
    /\ UNCHANGED << deployment, settings, now, nticks, tasks, tq_queue,
                    redis_list, circuit_breakers, dead_tasks, execution_stats,
                    timers, w_pc, w_data, w_task >>

NextPool ==
    \/ \E task_type \in PipelineKinds : SubmitTask(task_type)
    \/ \E w \in WorkerIds : PoolBrpop(w)
    \/ \E w \in WorkerIds : PoolReturn(w)
    \/ \E d \in TickSteps : Tick(d)

SpecPool == InitPool /\ [][NextPool]_vars

(***************************************************************************)
(* Concurrent retry_dead_letter requests.  The API serves each request as  *)
(* a coroutine of one event loop: a request runs until its next await and  *)
(* another request may run there.  api.calls keeps each request's          *)
(* position, the locals it holds (dead_task, task), and at its end what it *)
(* answered (ok) and whether it pushed an envelope (pushed).               *)
(***************************************************************************)
CallIds == 1..MaxCalls

NoCall == [ step |-> "idle", task_id |-> 0, ok |-> FALSE, pushed |-> FALSE ]

InitRequeue ==
    /\ deployment = "enhanced"
    /\ settings = [ max_retries |-> 0 ]
    /\ now = 0
    /\ nticks = 0
    /\ tasks = << >>
    /\ tq_queue = << >>
    /\ redis_list = << >>
    /\ processing = EmptyDict
    /\ circuit_breakers = EmptyDict
    /\ dead_tasks = EmptyDict
    /\ execution_stats = [ total_executed |-> 0, successful |-> 0,
                           failed |-> 0, retried |-> 0 ]
    /\ timers = << >>
    /\ w_pc = "idle"
    /\ w_data = NoData
    /\ w_task = NoTask
    /\ api = [ step |-> "calls", calls |-> [ c \in CallIds |-> NoCall ] ]
    /\ hist = [ obs |-> << >>, abandoned |-> {}, burst |-> [ k \in Kinds |-> 0 ],
                ret |-> NoOp, call |-> NoOp, watch |-> FALSE ]

\* request c, retry_dead_letter up to its first await: the membership test,
\* the read of dead_tasks[task_id], the call of get_task
CallBegin(c, task_id) ==
    /\ api.step = "calls"
    /\ api.calls[c].step = "idle"
    /\ task_id \in TaskIds
    /\ api' = [ api EXCEPT !.calls[c] =
                 IF task_id \notin DOMAIN dead_tasks
                 THEN [ step |-> "done", task_id |-> task_id, ok |-> FALSE,
                        pushed |-> FALSE ]
                 ELSE [ step |-> "reset", task_id |-> task_id, ok |-> FALSE,
                        pushed |-> FALSE, dead_task |-> dead_tasks[task_id],
                        task |-> GetTask(tasks, task_id) ] ]
    /\ UNCHANGED << deployment, settings, now, nticks, tasks, tq_queue,
                    redis_list, processing, circuit_breakers, dead_tasks,
                    execution_stats, timers, w_pc, w_data, w_task, hist >>

\* request c after get_task: update_task_status(task_id, PENDING)
CallReset(c) ==
    /\ api.step = "calls"
    /\ api.calls[c].step = "reset"
    /\ tasks' = UpdateTaskStatus(tasks, api.calls[c].task_id, "pending",
                                 NoText, NoText, now)
    /\ api' = [ api EXCEPT !.calls[c].step = "create",
                           !.calls[c].task.retry_count = 0 ]
    /\ UNCHANGED << deployment, settings, now, nticks, tq_queue, redis_list,
                    processing, circuit_breakers, dead_tasks, execution_stats,
                    timers, w_pc, w_data, w_task, hist >>

\* request c after update_task_status: redis_queue.create_task, then
\* del dead_tasks[task_id]; a KeyError there makes the answer False
CallFinish(c) ==
    /\ api.step = "calls"
    /\ api.calls[c].step = "create"
    /\ RedisCreateTask(api.calls[c].task.task_type, api.calls[c].dead_task.payload)
    /\ dead_tasks' = Del(dead_tasks, api.calls[c].task_id)
    /\ hist' = ObsCreate(hist)
    /\ api' = [ api EXCEPT !.calls[c] =
                 [ step |-> "done", task_id |-> api.calls[c].task_id,
                   ok |-> api.calls[c].task_id \in DOMAIN dead_tasks,
                   pushed |-> TRUE ] ]
    /\ UNCHANGED << deployment, settings, now, nticks, processing,
                    circuit_breakers, execution_stats, timers,
                    w_pc, w_data, w_task >>

NextRequeue ==
    \/ \E task_type \in PipelineKinds : SubmitTask(task_type)
    \/ RedisGetNextTask
    \/ EnhancedExecuteStart
    \/ EnhancedExecuteSuccess
    \/ EnhancedExecuteFail
    \/ \E c \in CallIds, task_id \in 1..MaxTasks : CallBegin(c, task_id)
    \/ \E c \in CallIds : CallReset(c)
    \/ \E c \in CallIds : CallFinish(c)

SpecRequeue == InitRequeue /\ [][NextRequeue]_vars

(***************************************************************************)
(* The basic worker on its own: run_worker.py with the tasks created in    *)
(* its process.  The worker is one sequential loop, so each of its steps   *)
(* is taken once it is enabled.                                            *)
(***************************************************************************)
InitBasic ==
    /\ deployment = "basic"
    /\ settings \in [ max_retries : MaxRetriesSettings ]
    /\ now = 0
    /\ nticks = 0
    /\ tasks = << >>
    /\ tq_queue = << >>
    /\ redis_list = << >>
    /\ processing = EmptyDict
    /\ circuit_breakers = EmptyDict
    /\ dead_tasks = EmptyDict
    /\ execution_stats = [ total_executed |-> 0, successful |-> 0,
                           failed |-> 0, retried |-> 0 ]
    /\ timers = << >>
    /\ w_pc = "idle"
    /\ w_data = NoData
    /\ w_task = NoTask
    /\ api = NoRequest
    /\ hist = [ obs |-> << >>, abandoned |-> {}, burst |-> [ k \in Kinds |-> 0 ],
                ret |-> NoOp, call |-> NoOp, watch |-> FALSE ]

NextBasic ==
    \/ \E task_type \in LocalTaskTypes : CreateTask(task_type)
    \/ WorkerGetNextTask
    \/ ExecuteTaskStart
    \/ ExecuteTaskSuccess
    \/ ExecuteTaskFail
    \/ ExecuteTaskRetry
    \/ \E d \in TickSteps : Tick(d)

SpecBasic == InitBasic /\ [][NextBasic]_vars

FairBasic ==
    /\ WF_vars(WorkerGetNextTask)
    /\ WF_vars(ExecuteTaskStart)
    /\ WF_vars(ExecuteTaskSuccess \/ ExecuteTaskFail)
    /\ WF_vars(ExecuteTaskRetry)

SpecBasicFair == InitBasic /\ [][NextBasic]_vars /\ FairBasic

(***************************************************************************)
(* _calculate_retry_delay on its own: one call on a Task object and an     *)
(* exception drawn at the start.                                           *)
(***************************************************************************)
MaxBackoffCount == 7
MaxLinearCount == 24

\* class names of the exceptions handed to _calculate_retry_delay: the ones
\* _get_retry_strategy knows and one it does not
BackoffErrorTypes ==
    { "ConnectionError", "TimeoutError", "NetworkError", "RateLimitError",
      "TooManyRequestsError", "DatabaseError", "ConnectionPoolError",
      "ValueError" }

\* retry counts tried for an exception: far enough to pass the cap of its
\* strategy
BackoffCounts(type) ==
    IF GetRetryStrategy("text_processing", [ type |-> type, msg |-> "error" ]) = "linear"
    THEN 0 .. MaxLinearCount
    ELSE 0 .. MaxBackoffCount

BackoffCalls ==
    { [ step |-> "call",
        task |-> [ id |-> 1, task_type |-> "text_processing",
                   payload |-> JsonDumps(DictPayload),
                   retry_count |-> c[2], max_retries |-> c[2] + 1 ],
        error |-> [ type |-> c[1], msg |-> "error" ] ] :
      c \in { x \in BackoffErrorTypes \X (0 .. MaxLinearCount) :
                x[2] \in BackoffCounts(x[1]) } }

InitBackoff ==
    /\ deployment = "backoff"
    /\ settings = [ max_retries |-> max_retries ]
    /\ now = 0
    /\ nticks = 0
    /\ tasks = << >>
    /\ tq_queue = << >>
    /\ redis_list = << >>
    /\ processing = EmptyDict
    /\ circuit_breakers = EmptyDict
    /\ dead_tasks = EmptyDict
    /\ execution_stats = [ total_executed |-> 0, successful |-> 0,
                           failed |-> 0, retried |-> 0 ]
    /\ timers = << >>
    /\ w_pc = "idle"
    /\ w_data = NoData
    /\ w_task = NoTask
    /\ api \in BackoffCalls
    /\ hist = [ obs |-> << >>, abandoned |-> {}, burst |-> [ k \in Kinds |-> 0 ],
                ret |-> NoOp, call |-> NoOp, watch |-> FALSE ]

\* the call of _calculate_retry_delay; hist.ret keeps what it returned
CalculateRetryDelayCall ==
    /\ deployment = "backoff"
    /\ api.step = "call"
    /\ \E d \in CalculateRetryDelay(api.task, api.error) :
         hist' = [ hist EXCEPT !.ret = [ op |-> "calculate_retry_delay",
                                         delay |-> d ] ]
    /\ api' = [ api EXCEPT !.step = "returned" ]
    /\ UNCHANGED << deployment, settings, now, nticks, tasks, tq_queue,
                    redis_list, processing, circuit_breakers, dead_tasks,
                    execution_stats, timers, w_pc, w_data, w_task >>

NextBackoff == CalculateRetryDelayCall

SpecBackoff == InitBackoff /\ [][NextBackoff]_vars

(***************************************************************************)
(* TaskQueue.update_task_status on its own: any sequence of calls on one   *)
(* row of the tasks table.                                                 *)
(***************************************************************************)
TaskStatuses == {"pending", "running", "completed", "failed", "retrying"}

\* the optional arguments result and error_message of a call
StatusArguments ==
    { [ result |-> NoText, error_message |-> NoText ],
      [ result |-> HandlerResult, error_message |-> NoText ],
      [ result |-> NoText, error_message |-> "error" ] }

StoreTickSteps == {1}

InitStore ==
    /\ deployment = "store"
    /\ settings = [ max_retries |-> max_retries ]
    /\ now = 0
    /\ nticks = 0
    /\ tasks = << NewTask("text_processing", DictPayload) >>
    /\ tq_queue = << 1 >>
    /\ redis_list = << >>
    /\ processing = EmptyDict
    /\ circuit_breakers = EmptyDict
    /\ dead_tasks = EmptyDict
    /\ execution_stats = [ total_executed |-> 0, successful |-> 0,
                           failed |-> 0, retried |-> 0 ]
    /\ timers = << >>
    /\ w_pc = "idle"
    /\ w_data = NoData
    /\ w_task = NoTask
    /\ api = NoRequest
    /\ hist = [ obs |-> << >>, abandoned |-> {}, burst |-> [ k \in Kinds |-> 0 ],
                ret |-> NoOp, call |-> NoOp, watch |-> FALSE ]

\* a call of update_task_status on an existing row; it raises nothing
UpdateTaskStatusCall(task_id, status, arguments) ==
    /\ deployment = "store"
    /\ task_id \in TaskIds
    /\ tasks' = UpdateTaskStatus(tasks, task_id, status, arguments.result,
                                 arguments.error_message, now)
    /\ hist' = [ hist EXCEPT !.ret = [ op |-> "update_task_status",
                                       status |-> status,
                                       arguments |-> arguments,
                                       raised |-> NoText ] ]
    /\ UNCHANGED << api, deployment, settings, now, nticks, tq_queue,
                    redis_list, processing, circuit_breakers, dead_tasks,
                    execution_stats, timers, w_pc, w_data, w_task >>

NextStore ==
    \/ \E status \in TaskStatuses, arguments \in StatusArguments :
         UpdateTaskStatusCall(1, status, arguments)
    \/ \E d \in StoreTickSteps : Tick(d)

SpecStore == InitStore /\ [][NextStore]_vars

(***************************************************************************)
(* The Redis pipeline with redelivery: the queue hands out again the       *)
(* envelope of a task that already reached a terminal status.              *)
(***************************************************************************)
MaxDeliveries == 2

InRedisList(task_id) == \E i \in DOMAIN redis_list : redis_list[i].id = task_id

DuplicateDelivery(task_id) ==
    /\ deployment = "enhanced"
    /\ task_id \in TaskIds
    /\ tasks[task_id].status \in {"completed", "failed"}
    /\ ~InRedisList(task_id)
    /\ hist.obs[task_id].delivered < MaxDeliveries
    /\ redis_list' = LPush(redis_list,
                           Envelope(task_id, tasks[task_id].task_type,
                                    JsonLoads(tasks[task_id].payload)))
    /\ UNCHANGED << api, deployment, settings, now, nticks, tasks, tq_queue,
                    processing, circuit_breakers, dead_tasks, execution_stats,
                    timers, w_pc, w_data, w_task, hist >>

InitRedelivery ==
    /\ Init
    /\ deployment = "enhanced"
    /\ settings.max_retries = max_retries

NextRedelivery ==
    \/ \E task_type \in PipelineKinds : SubmitTask(task_type)
    \/ RedisGetNextTask
    \/ EnhancedExecuteStart
    \/ EnhancedExecuteSuccess
    \/ EnhancedExecuteFail
    \/ \E i \in 1..MaxTasks : RetryAfterDelay(i)
    \/ \E d \in TickSteps : Tick(d)
    \/ \E task_id \in 1..MaxTasks : DuplicateDelivery(task_id)

SpecRedelivery == InitRedelivery /\ [][NextRedelivery]_vars

(***************************************************************************)
(* The control surface with its answers observed, beside the enhanced      *)
(* worker.  retry_dead_letter is a coroutine of the API process: it        *)
(* suspends at each await (get_task, update_task_status, create_task), and *)
(* other requests run in between.                                          *)
(***************************************************************************)
\* task types POST /tasks/ does not list as valid
InvalidTaskTypes == {"unknown_type"}

\* POST /tasks/ with a task type that is not valid: the HTTPException(400)
\* raised inside the try block is caught by its except Exception clause,
\* which raises HTTPException(500)
SubmitInvalid(task_type) ==
    /\ deployment = "enhanced"
    /\ task_type \in InvalidTaskTypes
    /\ hist' = ObsRet(hist, [ op |-> "create_task",
                              status |-> InternalServerError, id |-> 0 ])
    /\ UNCHANGED << api, deployment, settings, now, nticks, tasks, tq_queue,
                    redis_list, processing, circuit_breakers, dead_tasks,
                    execution_stats, timers, w_pc, w_data, w_task >>

\* retry_dead_letter up to its first await: the membership test, the read of
\* the entry, the start of get_task
RequeueBegin(task_id) ==
    /\ deployment = "enhanced"
    /\ api = NoRequest
    /\ task_id \in TaskIds
    /\ IF task_id \notin DOMAIN dead_tasks
       THEN /\ api' = api
            /\ hist' = ObsRet(hist, [ op |-> "retry_dead_letter",
                                      id |-> task_id, ok |-> FALSE ])
       ELSE /\ api' = [ step |-> "reset", task_id |-> task_id,
                        dead_task |-> dead_tasks[task_id],
                        task |-> GetTask(tasks, task_id) ]
            /\ hist' = hist
    /\ UNCHANGED << deployment, settings, now, nticks, tasks, tq_queue,
                    redis_list, processing, circuit_breakers, dead_tasks,
                    execution_stats, timers, w_pc, w_data, w_task >>

\* retry_dead_letter after get_task: retry_count = 0 on the Task object it
\* holds, then update_task_status(task_id, PENDING)
RequeueReset ==
    /\ api.step = "reset"
    /\ tasks' = UpdateTaskStatus(tasks, api.task_id, "pending", NoText, NoText, now)
    /\ api' = [ api EXCEPT !.step = "create", !.task.retry_count = 0 ]
    /\ UNCHANGED << deployment, settings, now, nticks, tq_queue, redis_list,
                    processing, circuit_breakers, dead_tasks, execution_stats,
                    timers, w_pc, w_data, w_task, hist >>

\* retry_dead_letter after update_task_status: redis_queue.create_task, then
\* del dead_tasks[task_id], whose KeyError the except clause turns into the
\* answer False
RequeueFinish ==
    /\ api.step = "create"
    /\ RedisCreateTask(api.task.task_type, api.dead_task.payload)
    /\ dead_tasks' = Del(dead_tasks, api.task_id)
    /\ hist' = ObsRet(ObsCreate(hist),
                      [ op |-> "retry_dead_letter", id |-> api.task_id,
                        ok |-> api.task_id \in DOMAIN dead_tasks ])
    /\ api' = NoRequest
    /\ UNCHANGED << deployment, settings, now, nticks, processing,
                    circuit_breakers, execution_stats, timers,
                    w_pc, w_data, w_task >>

\* clock advance past the default purge age
ApiTickSteps == {DefaultOlderThanHours * 3600 + 1}

\* MAX_RETRIES=0 or 1 in the environment: a failure leaves a dead letter at
\* once, or after one retry
InitApi ==
    /\ deployment = "enhanced"
    /\ settings \in { [ max_retries |-> m ] : m \in {0, 1} }
    /\ now = 0
    /\ nticks = 0
    /\ tasks = << >>
    /\ tq_queue = << >>
    /\ redis_list = << >>
    /\ processing = EmptyDict
    /\ circuit_breakers = EmptyDict
    /\ dead_tasks = EmptyDict
    /\ execution_stats = [ total_executed |-> 0, successful |-> 0,
                           failed |-> 0, retried |-> 0 ]
    /\ timers = << >>
    /\ w_pc = "idle"
    /\ w_data = NoData
    /\ w_task = NoTask
    /\ api = NoRequest
    /\ hist = [ obs |-> << >>, abandoned |-> {}, burst |-> [ k \in Kinds |-> 0 ],
                ret |-> NoOp, call |-> NoOp, watch |-> TRUE ]

NextApi ==
    \/ \E task_type \in Kinds : SubmitTask(task_type)
    \/ \E task_type \in InvalidTaskTypes : SubmitInvalid(task_type)
    \/ RedisGetNextTask
    \/ EnhancedExecuteStart
    \/ EnhancedExecuteSuccess
    \/ EnhancedExecuteFail
    \/ \E i \in 1..MaxTasks : RetryAfterDelay(i)
    \/ \E task_id \in 1..MaxTasks : RequeueBegin(task_id)
    \/ RequeueReset
    \/ RequeueFinish
    \/ \E task_type \in Kinds \cup {NoText}, h \in PurgeHours :
         PurgeDeadLetters(task_type, h)
    \/ \E d \in ApiTickSteps : Tick(d)

SpecApi == InitApi /\ [][NextApi]_vars

(***************************************************************************)
(* Properties.                                                             *)
(***************************************************************************)
Terminal(task_id) == tasks[task_id].status \in {"completed", "failed"}

DagEdges ==
    { << "pending", "running" >>, << "running", "completed" >>,
      << "running", "failed" >>, << "running", "retrying" >>,
      << "retrying", "running" >> }

\* C1: apart from the dead letter requeue, every change of a task's
\* persisted status is an edge of the DAG pending -> running ->
\* {completed, failed, retrying}, retrying -> running.
StatusChangesFollowDag ==
    [][ (\A task_id \in 1..MaxTasks : ~RetryDeadLetter(task_id)) =>
        \A id \in TaskIds :
            tasks'[id].status # tasks[id].status =>
                << tasks[id].status, tasks'[id].status >> \in DagEdges ]_vars

\* C2: a task whose envelope was popped by a worker that then went away
\* before the task was terminal is not lost: it is terminal, or its envelope
\* is back in the queue, or its lease is still running.
AbandonedEnvelopeRedelivered ==
    deployment = "enhanced" =>
        \A id \in hist.abandoned :
            Terminal(id) \/ InRedisList(id) \/ id \in DOMAIN processing

\* C3: the delivery of an envelope whose task is already completed or failed
\* changes neither the task records, the breakers nor the successful, failed
\* and retried counters, does not run the handler and clears the marker.
DuplicateDeliveryIsNoOp ==
    [][ ( /\ deployment = "enhanced"
          /\ w_pc = "got"
          /\ w_pc' \notin {"got", "exited"}
          /\ Terminal(w_data.id) ) =>
        ( /\ tasks' = tasks
          /\ circuit_breakers' = circuit_breakers
          /\ execution_stats'.successful = execution_stats.successful
          /\ execution_stats'.failed = execution_stats.failed
          /\ execution_stats'.retried = execution_stats.retried
          /\ w_pc' = "idle"
          /\ w_data.id \notin DOMAIN processing' ) ]_vars

\* C4: every task record has retry_count <= max_retries: the rows of the
\* table, and the Task objects whose retry _schedule_retry has counted.
RetryCountWithinMax ==
    /\ \A id \in TaskIds : tasks[id].retry_count <= tasks[id].max_retries
    /\ \A i \in DOMAIN timers :
          timers[i].task.retry_count <= timers[i].task.max_retries

\* a row that used up all its retries and failed for good
RetryCountAtMax ==
    \E id \in TaskIds :
        /\ tasks[id].max_retries > 0
        /\ tasks[id].retry_count = tasks[id].max_retries
        /\ tasks[id].status = "failed"
        /\ hist.obs[id].attempts = tasks[id].max_retries + 1

\* C5: a completed task has its result, no error message, and completed_at.
CompletedHasResult ==
    \A id \in TaskIds :
        tasks[id].status = "completed" =>
            /\ tasks[id].result # NoText
            /\ tasks[id].error_message = NoText
            /\ tasks[id].completed_at # NoTime

\* a task completed
SomeTaskCompleted ==
    \E id \in TaskIds : tasks[id].status = "completed" /\ hist.obs[id].attempts >= 1

\* C6: a failed task has its error message and completed_at, and it was
\* marked failed with no retries left or with the breaker refusing; never
\* with retries remaining and the breaker allowing.
FailedOnlyWithoutRetry ==
    \A id \in TaskIds :
        tasks[id].status = "failed" =>
            /\ tasks[id].error_message # NoText
            /\ tasks[id].completed_at # NoTime
            /\ hist.obs[id].note \in {"exhausted", "breaker"}

\* nothing is left to happen for the task: it ran, no worker holds it, no
\* envelope and no retry timer carries its id
Settled(id) ==
    /\ hist.obs[id].attempts >= 1
    /\ HeldId # id
    /\ ~InRedisList(id)
    /\ \A i \in DOMAIN timers : timers[i].task.id # id

OnlyTimeouts(id) ==
    /\ Len(hist.obs[id].errors) = hist.obs[id].attempts
    /\ \A i \in DOMAIN hist.obs[id].errors : hist.obs[id].errors[i] = "TimeoutError"

\* C7: a task with max_retries = 3 whose every attempt raises TimeoutError
\* (breaker allowing) is attempted 4 times with retry delays 5, 10, 20, ends
\* failed and has one dead letter with error type TimeoutError.
RetryExhaustionScenario ==
    \A id \in TaskIds :
        ( /\ deployment = "enhanced"
          /\ w_pc # "exited"
          /\ tasks[id].max_retries = max_retries
          /\ Settled(id)
          /\ OnlyTimeouts(id)
          /\ hist.obs[id].note # "breaker" ) =>
        ( /\ hist.obs[id].attempts = max_retries + 1
          /\ hist.obs[id].delays = << retry_delay, 2 * retry_delay, 4 * retry_delay >>
          /\ tasks[id].status = "failed"
          /\ id \in DOMAIN dead_tasks
          /\ dead_tasks[id].error_type = "TimeoutError" )

StateOf(cb, task_type) ==
    IF task_type \in DOMAIN cb THEN cb[task_type].state ELSE "absent"

\* C8: right after a record_failure that makes failure_threshold or more
\* consecutive failures of a kind (no record_success, no reset between),
\* the breaker of the kind is open and its last_failure is set.
BurstOpensBreaker ==
    [][ \A k \in Kinds :
          ( /\ hist'.burst[k] > hist.burst[k]
            /\ hist'.burst[k] >= failure_threshold ) =>
          ( /\ StateOf(circuit_breakers', k) = "open"
            /\ circuit_breakers'[k].last_failure # NoTime ) ]_vars

\* a burst that reached the threshold, begun on a breaker that had tripped
\* before (it was open or half_open when the burst began)
BurstReachedThreshold ==
    \E k \in Kinds :
        /\ hist.burst[k] >= failure_threshold
        /\ StateOf(circuit_breakers, k) = "open"
        /\ circuit_breakers[k].failures >= hist.burst[k] + failure_threshold

\* the breaker of the kind is open and recovery_timeout has not run out
OpenNotElapsed(cb, task_type, t) ==
    /\ StateOf(cb, task_type) = "open"
    /\ ~( cb[task_type].last_failure # NoTime
          /\ t - cb[task_type].last_failure > recovery_timeout )

\* C9: while the breaker of a kind is open and the timeout has not elapsed,
\* the allow check is false and should_retry refuses every task of the kind;
\* a task of the kind that fails then is marked failed after this one
\* attempt, with retries left, goes to the dead letter queue and gets no
\* retry timer.
OpenBreakerRefusesRetry ==
    [][ /\ \A task \in RegistryTasks, e \in HandlerErrors :
            OpenNotElapsed(circuit_breakers, task.task_type, now) =>
                /\ ~CheckCircuitBreaker(circuit_breakers, task.task_type, now).ok
                /\ \A out \in ShouldRetry(circuit_breakers, task, e, now) :
                       ~out.retry
        /\ \A id \in TaskIds :
            ( /\ deployment = "enhanced"
              /\ OpenNotElapsed(circuit_breakers, tasks[id].task_type, now)
              /\ tasks[id].status = "running"
              /\ tasks'[id].status \in {"failed", "retrying"} ) =>
            ( /\ tasks'[id].status = "failed"
              /\ hist'.obs[id].attempts = 1
              /\ id \in DOMAIN dead_tasks'
              /\ timers' = timers ) ]_vars

\* a task that failed while the breaker was already open, refused with
\* retries remaining
RefusedByOpenBreaker ==
    \E id \in TaskIds :
        /\ StateOf(circuit_breakers, tasks[id].task_type) = "open"
        /\ circuit_breakers[tasks[id].task_type].failures > failure_threshold
        /\ tasks[id].status = "failed"
        /\ hist.obs[id].note = "breaker"
        /\ hist.obs[id].attempts = 1
        /\ tasks[id].retry_count < tasks[id].max_retries
        /\ id \in DOMAIN dead_tasks

\* C10: a should_retry for a task with retries left on a breaker that is
\* open with more than recovery_timeout elapsed since last_failure returns
\* true and leaves the breaker half_open; a breaker becomes half_open only
\* from open and only with more than recovery_timeout elapsed.
HalfOpenOnlyAfterTimeout ==
    [][ /\ \A task \in RegistryTasks, e \in RegistryErrors :
            ( /\ ShouldRetryCall(task, e)
              /\ task.retry_count < task.max_retries
              /\ StateOf(circuit_breakers, task.task_type) = "open"
              /\ ~OpenNotElapsed(circuit_breakers, task.task_type, now) ) =>
            ( /\ hist'.ret.retry
              /\ StateOf(circuit_breakers', task.task_type) = "half_open" )
        /\ \A k \in Kinds :
            ( /\ StateOf(circuit_breakers', k) = "half_open"
              /\ StateOf(circuit_breakers, k) # "half_open" ) =>
            ( /\ StateOf(circuit_breakers, k) = "open"
              /\ now - circuit_breakers[k].last_failure > recovery_timeout ) ]_vars

\* a breaker that went half_open on a should_retry that returned true
HalfOpenAfterAllow ==
    \E k \in Kinds :
        /\ StateOf(circuit_breakers, k) = "half_open"
        /\ hist.ret # NoOp
        /\ hist.ret.kind = k
        /\ hist.ret.retry
        /\ now - circuit_breakers[k].last_failure > recovery_timeout

\* C11: a should_retry for a task with retries left on a breaker that is
\* half_open (its probe was let through, and neither record_success nor
\* record_failure came since) does not return true.
SingleProbeInHalfOpen ==
    [][ \A task \in RegistryTasks, e \in RegistryErrors :
          ( /\ ShouldRetryCall(task, e)
            /\ task.retry_count < task.max_retries
            /\ StateOf(circuit_breakers, task.task_type) = "half_open" ) =>
          ~hist'.ret.retry ]_vars

\* C12: record_success on a half_open breaker leaves it closed with
\* failures = 0; record_failure on a half_open breaker leaves it open with
\* last_failure = the current time.
HalfOpenRecordOutcome ==
    [][ \A k \in Kinds :
          /\ ( RecordSuccessCall(k) /\ StateOf(circuit_breakers, k) = "half_open" ) =>
                ( /\ StateOf(circuit_breakers', k) = "closed"
                  /\ circuit_breakers'[k].failures = 0 )
          /\ ( RecordFailureCall(k) /\ StateOf(circuit_breakers, k) = "half_open" ) =>
                ( /\ StateOf(circuit_breakers', k) = "open"
                  /\ circuit_breakers'[k].last_failure = now ) ]_vars

\* a probe that failed: record_failure just ran on a half_open breaker, later
\* than the failure that had opened it
HalfOpenProbeFailed ==
    /\ hist.call.op = "record_failure"
    /\ hist.call.before.state = "half_open"
    /\ StateOf(circuit_breakers, hist.call.kind) = "open"
    /\ circuit_breakers[hist.call.kind].last_failure = now
    /\ hist.call.before.last_failure < now

\* C13: reset_circuit_breaker on an existing breaker, whatever its state and
\* counter, leaves the record in place, closed, with failures = 0 and no
\* last_failure.
ResetYieldsClosedBreaker ==
    [][ \A k \in Kinds :
          ResetCall(k) =>
            ( /\ k \in DOMAIN circuit_breakers'
              /\ circuit_breakers'[k].state = "closed"
              /\ circuit_breakers'[k].failures = 0
              /\ circuit_breakers'[k].last_failure = NoTime ) ]_vars

\* a reset that just ran on a half_open breaker with failures counted
ResetOfHalfOpen ==
    /\ hist.call.op = "reset_circuit_breaker"
    /\ hist.call.before.state = "half_open"
    /\ hist.call.before.failures >= failure_threshold
    /\ hist.call.kind \in DOMAIN circuit_breakers
    /\ circuit_breakers[hist.call.kind].failures = 0

\* C14: a retry_dead_letter that answers true leaves the task of the id
\* pending with retry_count = 0, one more envelope in the queue, that
\* envelope carrying the same id, and no dead letter for the id.
RequeueRoundTrip ==
    [][ ( api.step # "idle" /\ api'.step = "idle" /\ hist'.ret.ok ) =>
        ( /\ tasks'[api.task_id].status = "pending"
          /\ tasks'[api.task_id].retry_count = 0
          /\ Len(redis_list') = Len(redis_list) + 1
          /\ Head(redis_list').id = api.task_id
          /\ api.task_id \notin DOMAIN dead_tasks' ) ]_vars

\* C15: a retry_dead_letter that has reset the task and pushed an envelope
\* does not answer false, whatever purge did in between.
RequeueAtomicAgainstPurge ==
    [][ ( api.step # "idle" /\ api'.step = "idle" /\ ~hist'.ret.ok ) =>
        ~( /\ api.step = "create"
           /\ tasks[api.task_id].status = "pending"
           /\ Len(redis_list') = Len(redis_list) + 1 ) ]_vars

\* C16: purge_dead_letters removes exactly the dead letters older than
\* now - older_than_hours * 3600 of the kind asked for (of every kind with
\* no filter), answers their number, and changes no other dead letter, no
\* task and not the queue.
PurgeRemovesExactlyOld ==
    [][ \A task_type \in Kinds \cup {NoText}, h \in PurgeHours :
          PurgeDeadLetters(task_type, h) =>
            LET old == { id \in DOMAIN dead_tasks :
                           /\ dead_tasks[id].failed_at < now - h * 3600
                           /\ ( task_type = NoText
                                \/ dead_tasks[id].task_type = task_type ) }
            IN  /\ DOMAIN dead_tasks' = (DOMAIN dead_tasks) \ old
                /\ \A id \in DOMAIN dead_tasks' : dead_tasks'[id] = dead_tasks[id]
                /\ hist'.ret.count = Cardinality(old)
                /\ tasks' = tasks
                /\ redis_list' = redis_list ]_vars

\* a purge that removed one dead letter and kept a younger one
PurgedOneKeptOne ==
    /\ hist.ret.op = "purge_dead_letters"
    /\ hist.ret.count = 1
    /\ \E id \in DOMAIN dead_tasks : dead_tasks[id].failed_at = now

\* C17: no task id is in two of: the queue, the processing markers, the
\* dead letter queue.
AtMostOnePlace ==
    \A id \in TaskIds :
        /\ ~( InRedisList(id) /\ id \in DOMAIN processing )
        /\ ~( InRedisList(id) /\ id \in DOMAIN dead_tasks )
        /\ ~( id \in DOMAIN processing /\ id \in DOMAIN dead_tasks )

\* C18: a submit of a valid task type adds one row with the next id,
\* pending, retry_count = 0, max_retries = settings.max_retries, changes no
\* other row, and pushes one envelope with that id; every envelope in the
\* queue is the envelope of a row.
SubmitPersistsThenEnqueues ==
    [][ /\ \A i \in DOMAIN redis_list : redis_list[i].id \in TaskIds
        /\ \A task_type \in Kinds :
            SubmitTask(task_type) =>
              ( /\ Len(tasks') = Len(tasks) + 1
                /\ \A id \in TaskIds : tasks'[id] = tasks[id]
                /\ tasks'[Len(tasks') ].task_type = task_type
                /\ tasks'[Len(tasks') ].status = "pending"
                /\ tasks'[Len(tasks') ].retry_count = 0
                /\ tasks'[Len(tasks') ].max_retries = settings.max_retries
                /\ Len(redis_list') = Len(redis_list) + 1
                /\ Head(redis_list').id = Len(tasks')
                /\ Tail(redis_list') = redis_list ) ]_vars

\* two submits: two pending rows, their two envelopes in the queue
TwoSubmitted ==
    /\ deployment = "enhanced"
    /\ Len(tasks) = 2
    /\ Len(redis_list) = 2
    /\ redis_list[1].id = 2
    /\ redis_list[2].id = 1
    /\ \A id \in TaskIds : tasks[id].status = "pending"

\* C19: POST /tasks/ with a task type that is not valid answers 400, adds no
\* row and pushes no envelope.
InvalidSubmitIsBadRequest ==
    [][ \A task_type \in InvalidTaskTypes :
          SubmitInvalid(task_type) =>
            ( /\ hist'.ret.status = BadRequest
              /\ tasks' = tasks
              /\ redis_list' = redis_list ) ]_vars

\* C20: the retry_count of a row never decreases.
RetryCountNeverDecreases ==
    [][ \A id \in TaskIds : tasks'[id].retry_count >= tasks[id].retry_count ]_vars

\* a row run again after two counted retries
RunAgainAfterRetries ==
    \E id \in TaskIds :
        /\ tasks[id].retry_count >= 2
        /\ tasks[id].status = "running"

\* C21: with the one worker, envelopes are popped in the order they were
\* pushed: every push carries the id of a row created in the same step,
\* higher than every id pushed before, and every pop takes the envelope
\* that is older than all the envelopes left in the queue.
QueueIsFifo ==
    [][ /\ Len(redis_list') > Len(redis_list) =>
            ( /\ Len(tasks') = Len(tasks) + 1
              /\ Head(redis_list').id = Len(tasks')
              /\ Tail(redis_list') = redis_list )
        /\ RedisGetNextTask =>
            \A i \in DOMAIN redis_list' : w_data'.id < redis_list'[i].id ]_vars

\* the worker holds the envelope of task 1 while the envelope of task 2,
\* pushed later, waits in the queue
OlderPoppedFirst ==
    /\ w_pc = "got"
    /\ w_data.id = 1
    /\ InRedisList(2)
    /\ hist.obs[2].delivered = 0

\* C22: the envelope pushed when a retry timer fires carries the id of the
\* task that failed, and the retry adds no row to the tasks table.
RetryKeepsTaskId ==
    [][ \A i \in DOMAIN timers :
          RetryAfterDelay(i) =>
            ( /\ Len(tasks') = Len(tasks)
              /\ Head(redis_list').id = timers[i].task.id ) ]_vars

\* C23: when the enhanced worker is done with an envelope, whatever the
\* outcome, the processing marker of its id is gone.
HandlingEndsWithAck ==
    [][ ( /\ deployment = "enhanced"
          /\ w_pc \in {"got", "running"}
          /\ w_pc' = "idle" ) =>
        w_data.id \notin DOMAIN processing' ]_vars

\* C24: should_retry answers false for a task with retry_count >=
\* max_retries and leaves the breakers as they were; for any other task it
\* answers false when the breaker check refuses the kind, and else true
\* with a delay of at least 1.
ShouldRetryDecision ==
    [][ \A task \in RegistryTasks, error \in RegistryErrors :
          ShouldRetryCall(task, error) =>
            IF task.retry_count >= task.max_retries
            THEN /\ ~hist'.ret.retry
                 /\ circuit_breakers' = circuit_breakers
            ELSE IF ~CheckCircuitBreaker(circuit_breakers, task.task_type, now).ok
            THEN ~hist'.ret.retry
            ELSE /\ hist'.ret.retry
                 /\ hist'.ret.delay >= 1 ]_vars

\* should_retry has granted a retry with a delay after the breaker check
\* let the request through an open breaker whose timeout was over
RetryGrantedThroughBreaker ==
    /\ hist.call.op = "should_retry"
    /\ hist.call.before.state = "open"
    /\ hist.ret.retry
    /\ hist.ret.delay = retry_delay
    /\ circuit_breakers[hist.call.kind].state = "half_open"

\* C25: the delay returned for retry_count n is min(retry_delay * 2^n, 300)
\* for ConnectionError, TimeoutError, NetworkError and any class that is not
\* listed, min(retry_delay * (n + 1), 120) for DatabaseError and
\* ConnectionPoolError, and for RateLimitError and TooManyRequestsError at
\* least retry_delay * 2^n when that is below 300; it is never above 300
\* and, for the first two groups, not below the delay of n - 1.
DelayMatchesReference ==
    [][ ( api.step = "call" /\ api'.step = "returned" ) =>
        LET n == api.task.retry_count
            type == api.error.type
            d == hist'.ret.delay
        IN  /\ d <= 300
            /\ IF type \in {"DatabaseError", "ConnectionPoolError"}
               THEN /\ d = Min(retry_delay * (n + 1), 120)
                    /\ n > 0 => d >= Min(retry_delay * n, 120)
               ELSE IF type \in {"RateLimitError", "TooManyRequestsError"}
               THEN retry_delay * Pow2(n) < 300 => retry_delay * Pow2(n) <= d
               ELSE /\ d = Min(retry_delay * Pow2(n), 300)
                    /\ n > 0 => d >= Min(retry_delay * Pow2(n - 1), 300) ]_vars

\* a delay held down to 300 by the cap of the exponential strategy
ExponentialDelayCapped ==
    /\ api.step = "returned"
    /\ api.error.type = "TimeoutError"
    /\ retry_delay * Pow2(api.task.retry_count) > 300
    /\ hist.ret.delay = 300

\* C26: while a retry timer is pending, the row of its task has status
\* RETRYING: the status was written before the timer was started.
TimerOnlyForRetrying ==
    \A i \in DOMAIN timers : tasks[timers[i].task.id].status = "retrying"

\* a retry timer is pending for a task that failed once
RetryTimerPending ==
    /\ Len(timers) = 1
    /\ timers[1].due > now
    /\ tasks[timers[1].task.id].status = "retrying"
    /\ w_pc = "idle"

\* C27: when the handler fails on a payload it cannot decode into a
\* dictionary, or on a task type the executor does not know, the task is
\* set to FAILED and dead-lettered and no retry timer is started.
DecodeFailureIsFinal ==
    [][ ( /\ EnhancedExecuteFail
          /\ ( ~PayloadIsDict(w_task) \/ w_task.task_type \notin Kinds ) ) =>
        ( /\ tasks'[w_task.id].status = "failed"
          /\ w_task.id \in DOMAIN dead_tasks'
          /\ timers' = timers ) ]_vars

\* C28: a call of update_task_status whose status is not reached from the
\* status of the row by an edge of the DAG leaves the row as it was, and
\* when the status differs the call raises InvalidTransition; so a call
\* repeated with the same status and arguments changes nothing, completed_at
\* included.
IllegalUpdateRejected ==
    [][ \A status \in TaskStatuses, arguments \in StatusArguments :
          ( /\ UpdateTaskStatusCall(1, status, arguments)
            /\ << tasks[1].status, status >> \notin DagEdges ) =>
          ( /\ tasks' = tasks
            /\ status # tasks[1].status =>
                 hist'.ret.raised = "InvalidTransition" ) ]_vars

\* C29: once the enhanced worker has had a shutdown signal it pops no
\* envelope, and it has not exited with a task left RUNNING: the job that
\* was executing when the signal came was brought to COMPLETED, FAILED or
\* RETRYING first.
ShutdownFinishesJob ==
    [][ ( deployment = "enhanced" /\ w_pc' = "exited" ) =>
        ( /\ Len(redis_list') >= Len(redis_list)
          /\ \A id \in TaskIds : tasks'[id].status # "running" ) ]_vars

\* C30: a pop sets the processing marker of the popped id with a lease of
\* 300 s; a marker goes away only by complete_task of its id or when its
\* lease is over, and complete_task removes it; a marker appears only by a
\* pop; get_processing_count is the number of markers.
InFlightUntilAckOrExpiry ==
    [][ /\ RedisGetNextTask =>
            ( /\ w_data'.id \in DOMAIN processing'
              /\ processing'[w_data'.id] = now + 300 )
        /\ EnhancedExecuteSuccess => w_task.id \notin DOMAIN processing'
        /\ \A id \in (DOMAIN processing) \ (DOMAIN processing') :
             \/ EnhancedExecuteSuccess /\ w_task.id = id
             \/ processing[id] <= now'
        /\ \A id \in (DOMAIN processing') \ (DOMAIN processing) :
             RedisGetNextTask /\ w_data'.id = id
        /\ ProcessingCount' = Cardinality(DOMAIN processing') ]_vars

\* task 1 was popped and acknowledged, task 2 is popped and in flight
SecondInFlightFirstAcked ==
    /\ w_pc = "got"
    /\ w_data.id = 2
    /\ tasks[1].status = "completed"
    /\ DOMAIN processing = {2}
    /\ processing[2] = now + 300

\* C31: cleanup_stale_tasks leaves no processing marker without a TTL or
\* with a lease that is over, keeps every marker whose lease is running,
\* with its lease, and changes neither the queue nor a task row.
CleanupKeepsRunningLeases ==
    [][ CleanupStaleTasks =>
        ( /\ DOMAIN processing' =
               { k \in DOMAIN processing :
                   processing[k] # NoTime /\ processing[k] > now }
          /\ \A k \in DOMAIN processing' : processing'[k] = processing[k]
          /\ redis_list' = redis_list
          /\ tasks' = tasks ) ]_vars

\* a cleanup ran while the marker of a task in execution had its lease
\* running, and the marker is still there
CleanupKeptMarker ==
    /\ hist.ret.op = "cleanup_stale_tasks"
    /\ hist.ret.keys = {1}
    /\ w_pc = "running"
    /\ 1 \in DOMAIN processing
    /\ processing[1] > now

\* C32: the start of an execution adds 1 to total_executed and nothing
\* else; its end adds 1 to exactly one of successful, failed, retried; when
\* no execution is under way total_executed = successful + failed + retried.
StatsAddUp ==
    [][ LET done(st) == st.successful + st.failed + st.retried
        IN  /\ EnhancedExecuteStart =>
                ( /\ execution_stats'.total_executed =
                       execution_stats.total_executed + 1
                  /\ done(execution_stats') = done(execution_stats) )
            /\ ( EnhancedExecuteSuccess \/ EnhancedExecuteFail ) =>
                ( /\ execution_stats'.total_executed =
                       execution_stats.total_executed
                  /\ done(execution_stats') = done(execution_stats) + 1
                  /\ execution_stats'.successful >= execution_stats.successful
                  /\ execution_stats'.failed >= execution_stats.failed
                  /\ execution_stats'.retried >= execution_stats.retried )
            /\ w_pc' = "idle" =>
                execution_stats'.total_executed = done(execution_stats') ]_vars

\* two executions are over, one retried and one successful
OneRetriedOneSuccessful ==
    /\ w_pc = "idle"
    /\ execution_stats.total_executed = 2
    /\ execution_stats.retried = 1
    /\ execution_stats.successful = 1

\* C33: each retry the executor schedules adds 1 to the retry_count of the
\* row of the task.
RetryCountsPersisted ==
    [][ ( EnhancedExecuteFail /\ Len(timers') = Len(timers) + 1 ) =>
        tasks'[w_task.id].retry_count = tasks[w_task.id].retry_count + 1 ]_vars

\* C34: no task stays RETRYING for ever; in particular none is RETRYING
\* from some time on with the queue empty, the worker idle and no retry
\* timer pending, when nothing is left that could bring it to COMPLETED or
\* FAILED.
NoTaskRetryingForEver ==
    \A id \in 1..MaxTasks :
        []<>~( /\ id \in TaskIds
               /\ tasks[id].status = "retrying"
               /\ timers = << >>
               /\ redis_list = << >>
               /\ w_pc = "idle" )

\* C35: a task that fails while the breaker of its kind is open gets no
\* retry, however long ago the breaker opened: the failure is recorded
\* first, last_failure is the time of this failure and the breaker is still
\* open after the check; no step of the executor, success or failure,
\* takes a breaker out of open.
OpenStaysOpenInExecutor ==
    [][ ( EnhancedExecuteSuccess \/ EnhancedExecuteFail ) =>
        /\ \A k \in DOMAIN circuit_breakers :
             circuit_breakers[k].state = "open" =>
                circuit_breakers'[k].state = "open"
        /\ ( /\ EnhancedExecuteFail
             /\ StateOf(circuit_breakers, w_task.task_type) = "open" ) =>
             ( /\ circuit_breakers'[w_task.task_type].last_failure = now
               /\ timers' = timers
               /\ tasks'[w_task.id].status = "failed" ) ]_vars

\* task 1 was refused by the breaker at time 0; task 2 failed a clock
\* advance later, on the breaker still open, and was refused too
RefusedLongAfterOpening ==
    /\ Len(tasks) = 2
    /\ tasks[1].status = "failed" /\ tasks[1].completed_at = 0
    /\ hist.obs[1].note = "breaker"
    /\ tasks[2].status = "failed" /\ tasks[2].completed_at = now
    /\ hist.obs[2].note = "breaker"
    /\ now > recovery_timeout
    /\ tasks[2].retry_count < tasks[2].max_retries
    /\ circuit_breakers[tasks[2].task_type].state = "open"
    /\ circuit_breakers[tasks[2].task_type].failures > failure_threshold

\* C36: record_success on a breaker that is not half_open (closed, open, or
\* without a record) leaves the whole registry as it was: state, failures
\* and last_failure of every kind; so the count of a closed breaker keeps
\* growing across successes.
SuccessOnlyActsInHalfOpen ==
    [][ \A k \in Kinds :
          ( RecordSuccessCall(k) /\ StateOf(circuit_breakers, k) # "half_open" )
              => circuit_breakers' = circuit_breakers ]_vars

\* a breaker opened by its failure_threshold-th failure although a success
\* was recorded among those failures
OpenedAcrossSuccesses ==
    \E k \in DOMAIN circuit_breakers :
        /\ circuit_breakers[k].state = "open"
        /\ circuit_breakers[k].failures = failure_threshold
        /\ hist.burst[k] > 0
        /\ hist.burst[k] < failure_threshold

\* C37: every breaker record is closed, open or half_open; a closed one
\* has fewer than failure_threshold failures; an open or half_open one has
\* at least failure_threshold failures and a last_failure time.
BreakerRecordsConsistent ==
    \A k \in DOMAIN circuit_breakers :
        LET b == circuit_breakers[k]
        IN  /\ b.state \in {"closed", "open", "half_open"}
            /\ b.state = "closed" => b.failures < failure_threshold
            /\ b.state \in {"open", "half_open"} =>
                  ( b.failures >= failure_threshold /\ b.last_failure # NoTime )

\* a breaker let through to half_open after more failures than the
\* threshold: it kept counting while it was open
HalfOpenAboveThreshold ==
    \E k \in DOMAIN circuit_breakers :
        /\ circuit_breakers[k].state = "half_open"
        /\ circuit_breakers[k].failures > failure_threshold
        /\ now - circuit_breakers[k].last_failure > recovery_timeout

\* C38: with several workers popping at once, every enqueued envelope is
\* handed to at most one pop (counting the pops still between brpop and
\* return), and the pops together never hand out more envelopes than were
\* enqueued.
EnvelopePoppedAtMostOnce ==
    api.step = "pool" =>
        LET Pops(id) ==
                { << w, i >> \in WorkerIds \X (1..MaxTasks) :
                    i <= Len(api.held[w]) /\ api.held[w][i] = id }
            InPop(id) ==
                { w \in WorkerIds : api.pc[w] = "popped" /\ api.data[w].id = id }
            AllPops ==
                { << w, i >> \in WorkerIds \X (1..MaxTasks) : i <= Len(api.held[w]) }
        IN  /\ \A w \in WorkerIds : Len(api.held[w]) <= MaxTasks
            /\ \A id \in TaskIds : Cardinality(Pops(id)) + Cardinality(InPop(id)) <= 1
            /\ Cardinality(AllPops)
                  + Cardinality({ w \in WorkerIds : api.pc[w] = "popped" })
                    <= Len(tasks)

\* two workers were each handed one of two envelopes, and the list is empty
TwoWorkersTwoEnvelopes ==
    /\ api.step = "pool"
    /\ Len(tasks) = 2
    /\ redis_list = << >>
    /\ \E w1, w2 \in WorkerIds :
         /\ w1 # w2
         /\ api.held[w1] = << 1 >>
         /\ api.held[w2] = << 2 >>
    /\ DOMAIN processing = {1, 2}

\* C39: of the retry_dead_letter requests made for one dead-letter id, at
\* most one pushes an envelope and at most one answers true.
ConcurrentRequeueOnce ==
    api.step = "calls" =>
        \A id \in TaskIds :
            /\ Cardinality({ c \in CallIds : /\ api.calls[c].task_id = id
                                             /\ api.calls[c].pushed }) <= 1
            /\ Cardinality({ c \in CallIds : /\ api.calls[c].task_id = id
                                             /\ api.calls[c].ok }) <= 1

\* C40: with the basic executor, a task whose handler fails at every
\* attempt (an unknown task type) comes to rest, and stays there: failed,
\* retry_count = max_retries, executed max_retries + 1 times, not on the
\* queue and not in the worker's hands.
AlwaysFailingTaskComesToRest ==
    \A id \in 1..MaxTasks :
        []( ( id \in TaskIds /\ tasks[id].task_type = "unknown_type" ) =>
            <>[]( /\ id \in TaskIds
                  /\ tasks[id].status = "failed"
                  /\ tasks[id].retry_count = tasks[id].max_retries
                  /\ hist.obs[id].attempts = tasks[id].max_retries + 1
                  /\ \A i \in DOMAIN tq_queue : tq_queue[i] # id
                  /\ w_task.id # id ) )

\* an unknown-type task of the basic worker at rest after max_retries = 3
\* retries: handed out and executed four times
UnknownTypeAtRest ==
    /\ deployment = "basic"
    /\ \E id \in TaskIds :
         /\ tasks[id].task_type = "unknown_type"
         /\ tasks[id].max_retries = max_retries
         /\ tasks[id].retry_count = max_retries
         /\ tasks[id].status = "failed"
         /\ hist.obs[id].attempts = max_retries + 1
         /\ hist.obs[id].delivered = max_retries + 1
         /\ w_task.id # id
         /\ \A i \in DOMAIN tq_queue : tq_queue[i] # id

====
